---- MODULE Spec2Model ----
(***************************************************************************)
(* Model of the Vipps MobilePay SDK core:                                  *)
(*   - pkg/client: Client token lifecycle (IsTokenValid, GetAccessToken,   *)
(*     EnsureValidToken) and DoRequest, called from several goroutines on  *)
(*     one Client, which holds no lock;                                    *)
(*   - pkg/webhooks: Handler.ValidateSignature, Handler.ParseEvent and     *)
(*     the http.HandlerFunc built by Handler.HandleHTTP.                   *)
(* Strings are TLC strings; Sprintf and "+" are \o.  SHA-256, HMAC-SHA256  *)
(* and base64 are modelled as injective string constructors.               *)
(***************************************************************************)
EXTENDS Integers, Sequences, FiniteSets, TLC

VARIABLES
    \* ---- pkg/client: Client fields and the clock
    AccessToken,    \* Client.AccessToken
    TokenExpiry,    \* Client.TokenExpiry, in seconds of the model clock
    now,            \* time.Now(), in seconds
    tokenSrc,       \* history: number of the refresh whose line 322 wrote AccessToken (0: NewClient)
    expirySrc,      \* history: number of the refresh whose line 330 wrote TokenExpiry (0: NewClient)
    refreshes,      \* history: number of 200 token responses decoded so far
    cpc,            \* per goroutine: position inside the running Client operation
    cop,            \* per goroutine: the operation it runs
    expStr,         \* per goroutine: tokenResp.ExpiresIn of the running GetAccessToken
    tokResp,        \* per goroutine: tokenResp.AccessToken of the running GetAccessToken
    tokSeen,        \* per goroutine: tokenSrc at its read of AccessToken in IsTokenValid
    ret,            \* per goroutine: what its last operation returned
    lastSent,       \* the last request handed to c.client.Do at line 386
    args,           \* per goroutine: the arguments of the running DoRequest
    tokenCalls,     \* per goroutine, history: the token-endpoint calls of its operation, by outcome
    domainCalls,    \* per goroutine, history: number of domain-endpoint calls of its operation
    domResp,        \* per goroutine, history: the response its DoRequest got from c.client.Do
    retVal,         \* per goroutine: the body and status its DoRequest returned
    systemInfo,     \* Client.SystemName, SystemVersion, SystemPluginName, SystemPluginVersion
    timeout,        \* Client.client.Timeout, in seconds
    TestMode,       \* Client.TestMode
    \* ---- pkg/client: the Payment and Webhook API handlers on the Client
    uuids,          \* history: number of calls of uuid.New so far
    invocations,    \* history: the calls of the API methods, with the key each passed on
    papi,           \* per goroutine: the API method it runs
    pret,           \* per goroutine: what its last API method returned
    \* ---- pkg/webhooks: one Handler and the request it is serving
    SecretKey,      \* Handler.SecretKey
    req,            \* the *http.Request being served
    signed,         \* history: what the sender of the request signed, and with which key
    tampers,        \* history: number of changes made to the request in flight
    rBody,          \* r.Body: the bytes still unread, and whether reading fails
    wpc,            \* position inside the HandlerFunc
    status,         \* status code written to the ResponseWriter (0: none yet)
    writes,         \* history: number of status lines written for this request
    sigResult,      \* history: what ValidateSignature returned for this request
    event,          \* the decoded *models.WebhookEvent
    invoked,        \* history: number of calls of handler(event) for this request
    handlerResult,  \* history: what handler(event) returned
    stages,         \* history: the stages this request went through
    endpoint,       \* the handler given to HandleHTTP: a plain function or router.Process
    validations,    \* history: number of calls of ValidateSignature for this request
    \* ---- pkg/webhooks: one Router
    handlers,       \* Router.handlers: event name -> EventProcessor, or no entry
    fallback,       \* Router.fallback
    regLog,         \* history: the registration calls made so far, in order
    routed,         \* history: the last call of Router.Process and what it did
    deliveries      \* per concurrent call of the HandlerFunc: its request, position and outcome

clientVars == <<AccessToken, TokenExpiry, now, tokenSrc, expirySrc, refreshes,
                cpc, cop, expStr, tokResp, tokSeen, ret, lastSent,
                args, tokenCalls, domainCalls, domResp, retVal, systemInfo,
                timeout, TestMode, uuids, invocations, papi, pret>>
settingVars == <<timeout, TestMode>>
apiVars == <<uuids, invocations, papi, pret>>
webhookVars == <<SecretKey, req, signed, tampers, rBody, wpc, status, writes, sigResult, event,
                 invoked, handlerResult, stages, endpoint, validations>>
routerVars == <<handlers, fallback, regLog, routed, deliveries>>
vars == <<clientVars, webhookVars, routerVars>>

(***************************************************************************)
(* Bounds                                                                  *)
(***************************************************************************)
NumProcs == 2
MaxTime == 3
MaxRefresh == 2
MaxTampers == 2
MaxRegs == 2
NumDeliveries == 2
MaxCalls == 2

Procs == 1..NumProcs

(***************************************************************************)
(* pkg/client                                                              *)
(***************************************************************************)

\* strconv.Atoi on a string given as its sequence of characters: an optional
\* sign followed by one or more decimal digits; anything else is an error.
DigitVal(ch) ==
    CASE ch = "0" -> 0 [] ch = "1" -> 1 [] ch = "2" -> 2 [] ch = "3" -> 3
      [] ch = "4" -> 4 [] ch = "5" -> 5 [] ch = "6" -> 6 [] ch = "7" -> 7
      [] ch = "8" -> 8 [] ch = "9" -> 9 [] OTHER -> -1

RECURSIVE ParseDigits(_, _)
ParseDigits(s, acc) ==
    IF s = <<>> THEN acc
    ELSE IF DigitVal(Head(s)) < 0 THEN -1
    ELSE ParseDigits(Tail(s), acc * 10 + DigitVal(Head(s)))

Atoi(s) ==
    LET hasSign == s # <<>> /\ Head(s) \in {"+", "-"}
        digits == IF hasSign THEN Tail(s) ELSE s
        n      == IF digits = <<>> THEN -1 ELSE ParseDigits(digits, 0)
    IN  IF n < 0 THEN [ok |-> FALSE, val |-> 0]
        ELSE [ok |-> TRUE, val |-> IF hasSign /\ Head(s) = "-" THEN 0 - n ELSE n]

\* The expires_in strings and the access_token values the provider's 200
\* responses carry in the model.
ExpiresInStrings == { <<>>, <<"1", "h">>, <<"0">>, <<"2">>, <<"-", "1">> }
AccessTokens == {"", "tokA", "tokB"}

\* What c.client.Do(req) of GetAccessToken can yield: a transport error, a
\* response whose body does not decode into tokenResp, or a response whose
\* body decodes, with any access_token and expires_in strings; the status is
\* 200 or another one.
TokenStatuses == {200, 401}
TokenResponses ==
    { [transportErr |-> TRUE, status |-> 0, decodable |-> FALSE,
       access_token |-> "", expires_in |-> <<>>] }
    \cup { [transportErr |-> FALSE, status |-> s, decodable |-> FALSE,
            access_token |-> "", expires_in |-> <<>>] : s \in TokenStatuses }
    \cup { [transportErr |-> FALSE, status |-> 200, decodable |-> TRUE,
            access_token |-> t, expires_in |-> e] :
              t \in AccessTokens, e \in ExpiresInStrings }
    \cup { [transportErr |-> FALSE, status |-> s, decodable |-> TRUE,
            access_token |-> "tokB", expires_in |-> <<"2">>] : s \in TokenStatuses \ {200} }

\* strconv.Itoa / the %d verb, on the numbers of the model.
DigitChar(d) ==
    CASE d = 0 -> "0" [] d = 1 -> "1" [] d = 2 -> "2" [] d = 3 -> "3" [] d = 4 -> "4"
      [] d = 5 -> "5" [] d = 6 -> "6" [] d = 7 -> "7" [] d = 8 -> "8" [] OTHER -> "9"

RECURSIVE Itoa(_)
Itoa(n) == IF n < 10 THEN DigitChar(n) ELSE Itoa(n \div 10) \o DigitChar(n % 10)

\* The arguments of DoRequest: a write with a body and any idempotency key,
\* and a read without body and key.
IdemKeys == {"", "k1", "k2"}
NoArgs == [method |-> "", endpoint |-> "", body |-> "nil", idempotencyKey |-> ""]
DoRequestArgs ==
    { [method |-> "POST", endpoint |-> "/epayment/v1/payments", body |-> "{\"reference\":\"r1\"}",
       idempotencyKey |-> k] : k \in IdemKeys }
    \cup { [method |-> "GET", endpoint |-> "/epayment/v1/payments/r1", body |-> "nil",
            idempotencyKey |-> ""] }

\* The response bodies of the domain endpoint, and json.Unmarshal into
\* problemDetails (lines 399-406) on them.
ProblemBody == "{\"title\":\"T\",\"detail\":\"D\",\"status\":400,\"code\":\"C\"}"
EmptyObject == "{}"
NotJson == "Bad Gateway"
RespBodies == {ProblemBody, EmptyObject, NotJson}

UnmarshalProblem(b) ==
    CASE b = ProblemBody -> [ok |-> TRUE, title |-> "T", detail |-> "D", code |-> "C", status |-> 400]
      [] b = EmptyObject -> [ok |-> TRUE, title |-> "", detail |-> "", code |-> "", status |-> 0]
      [] OTHER           -> [ok |-> FALSE, title |-> "", detail |-> "", code |-> "", status |-> 0]

\* What c.client.Do(req) of DoRequest can yield: a transport error, or a
\* response with a status and a body that is read or fails to be read.
DomainStatuses == {200, 399, 400, 401}
NoResp == [got |-> FALSE, transportErr |-> FALSE, status |-> 0, body |-> "", readErr |-> FALSE]
DomainResponses ==
    { [got |-> TRUE, transportErr |-> TRUE, status |-> 0, body |-> "", readErr |-> FALSE] }
    \cup { [got |-> TRUE, transportErr |-> FALSE, status |-> s, body |-> b, readErr |-> FALSE] :
              s \in DomainStatuses, b \in RespBodies }
    \cup { [got |-> TRUE, transportErr |-> FALSE, status |-> s, body |-> "", readErr |-> TRUE] :
              s \in DomainStatuses }

\* A nil []byte is written "nil"; no body of the model is that string.
NoRet == [body |-> "nil", status |-> 0]

\* NewClient, lines 251-253: the system information of a new Client.
DefaultSystemInfo ==
    [name |-> "go-vipps-mobilepay-sdk", version |-> "1.0.0", pluginName |-> "", pluginVersion |-> ""]

\* The arguments SetSystemInfo is called with.
SystemInfoArgs ==
    {[name |-> "", version |-> "", pluginName |-> "", pluginVersion |-> ""],
     [name |-> "shop", version |-> "", pluginName |-> "plugin", pluginVersion |-> ""]}

NoHeaders ==
    [Authorization |-> "", SystemName |-> "", SystemVersion |-> "",
     SystemPluginName |-> <<>>, SystemPluginVersion |-> <<>>, IdempotencyKey |-> <<>>]

NoSent == [sent |-> FALSE, token |-> "", fresh |-> FALSE, args |-> NoArgs,
           headers |-> NoHeaders, repeat |-> FALSE]

\* Line 202, in seconds, and the timeouts SetTimeout is called with.
defaultTimeout == 30
Timeouts == {defaultTimeout, 5}

\* NewClient (lines 234-255); no API method has been called.
NewClient(testMode) ==
    /\ AccessToken = ""
    /\ TokenExpiry = 0
    /\ now = 1
    /\ tokenSrc = 0
    /\ expirySrc = 0
    /\ refreshes = 0
    /\ cpc = [p \in Procs |-> "idle"]
    /\ cop = [p \in Procs |-> "none"]
    /\ expStr = [p \in Procs |-> <<>>]
    /\ tokResp = [p \in Procs |-> ""]
    /\ tokSeen = [p \in Procs |-> 0]
    /\ ret = [p \in Procs |-> "none"]
    /\ lastSent = NoSent
    /\ args = [p \in Procs |-> NoArgs]
    /\ tokenCalls = [p \in Procs |-> <<>>]
    /\ domainCalls = [p \in Procs |-> 0]
    /\ domResp = [p \in Procs |-> NoResp]
    /\ retVal = [p \in Procs |-> NoRet]
    /\ systemInfo = DefaultSystemInfo
    /\ timeout = defaultTimeout
    /\ TestMode = testMode
    /\ uuids = 0
    /\ invocations = <<>>
    /\ papi = [p \in Procs |-> "none"]
    /\ pret = [p \in Procs |-> "none"]

\* The Client of the production environment.
ClientInit == NewClient(FALSE)

\* time passes
Tick ==
    /\ now < MaxTime
    /\ now' = now + 1
    /\ UNCHANGED <<AccessToken, TokenExpiry, tokenSrc, expirySrc, refreshes,
                   cpc, cop, expStr, tokResp, tokSeen, ret, lastSent,
                   args, tokenCalls, domainCalls, domResp, retVal>>
    /\ UNCHANGED <<systemInfo, settingVars, apiVars, webhookVars, routerVars>>

\* A goroutine calls DoRequest (with arguments a), EnsureValidToken,
\* GetAccessToken or IsTokenValid.
StartPc(op) == IF op = "GetAccessToken" THEN "gat" ELSE "valid_token"

Call(p, op, a) ==
    /\ cpc[p] = "idle"
    /\ cop' = [cop EXCEPT ![p] = op]
    /\ cpc' = [cpc EXCEPT ![p] = StartPc(op)]
    /\ ret' = [ret EXCEPT ![p] = "none"]
    /\ args' = [args EXCEPT ![p] = IF op = "DoRequest" THEN a ELSE NoArgs]
    /\ tokenCalls' = [tokenCalls EXCEPT ![p] = <<>>]
    /\ domainCalls' = [domainCalls EXCEPT ![p] = 0]
    /\ domResp' = [domResp EXCEPT ![p] = NoResp]
    /\ retVal' = [retVal EXCEPT ![p] = NoRet]
    /\ UNCHANGED <<AccessToken, TokenExpiry, now, tokenSrc, expirySrc, refreshes,
                   expStr, tokResp, tokSeen, lastSent>>
    /\ UNCHANGED <<systemInfo, settingVars, apiVars, webhookVars, routerVars>>

\* An operation of goroutine p returns r to its caller.
Return(p, r) ==
    /\ cpc' = [cpc EXCEPT ![p] = "idle"]
    /\ ret' = [ret EXCEPT ![p] = r]

\* EnsureValidToken returned nil: DoRequest goes on to line 349, a direct
\* caller gets nil.
Ensured(p) ==
    IF cop[p] = "DoRequest"
      THEN cpc' = [cpc EXCEPT ![p] = "send"] /\ ret' = ret
      ELSE Return(p, "nil")

\* Faulty variant: EnsureValidToken refreshes whatever IsTokenValid says.
Checked_AlwaysRefresh(p, valid) ==
    IF cop[p] = "IsTokenValid"
      THEN Return(p, IF valid THEN "true" ELSE "false")
      ELSE cpc' = [cpc EXCEPT ![p] = "gat"] /\ ret' = ret

\* IsTokenValid has its answer: a direct caller gets it; EnsureValidToken
\* (lines 337-340) returns nil on true and calls GetAccessToken on false.
Checked(p, valid) ==
    IF cop[p] = "IsTokenValid"
      THEN Return(p, IF valid THEN "true" ELSE "false")
      ELSE IF valid
             THEN Ensured(p)
             ELSE cpc' = [cpc EXCEPT ![p] = "gat"] /\ ret' = ret

\* IsTokenValid, line 280: c.AccessToken != "" is read first ...
ReadToken(p) ==
    /\ cpc[p] = "valid_token"
    /\ IF AccessToken # ""
         THEN /\ cpc' = [cpc EXCEPT ![p] = "valid_expiry"]
              /\ tokSeen' = [tokSeen EXCEPT ![p] = tokenSrc]
              /\ ret' = ret
         ELSE /\ Checked(p, FALSE)
              /\ tokSeen' = tokSeen
    /\ UNCHANGED <<AccessToken, TokenExpiry, now, tokenSrc, expirySrc, refreshes,
                   cop, expStr, tokResp, lastSent,
                   args, tokenCalls, domainCalls, domResp, retVal>>
    /\ UNCHANGED <<systemInfo, settingVars, apiVars, webhookVars, routerVars>>

\* Faulty variant: a token is taken as valid at the very time of its expiry.
Before_OrEqual(t, u) == t <= u

\* time.Time.Before: t is strictly before u.
Before(t, u) == t < u

\* ... and, the token being non-empty, time.Now().Before(c.TokenExpiry).
ReadExpiry(p) ==
    /\ cpc[p] = "valid_expiry"
    /\ tokSeen' = [tokSeen EXCEPT ![p] = 0]
    /\ Checked(p, Before(now, TokenExpiry))
    /\ UNCHANGED <<AccessToken, TokenExpiry, now, tokenSrc, expirySrc, refreshes,
                   cop, expStr, tokResp, lastSent,
                   args, tokenCalls, domainCalls, domResp, retVal>>
    /\ UNCHANGED <<systemInfo, settingVars, apiVars, webhookVars, routerVars>>

\* Faulty variant: the status of the token response is not looked at.
TokenCallFailed_StatusIgnored(resp) == resp.transportErr \/ ~resp.decodable

\* GetAccessToken, lines 300-320: the call failed (301), the status is not
\* 200 (306), or the body does not decode (318).
TokenCallFailed(resp) == resp.transportErr \/ resp.status # 200 \/ ~resp.decodable

\* The outcome of a token-endpoint call as the history keeps it.
TokenOutcome(resp) ==
    IF resp.transportErr THEN "transport_error"
    ELSE IF ~resp.decodable THEN "undecodable " \o Itoa(resp.status)
    ELSE "status " \o Itoa(resp.status)

\* Faulty variant: DoRequest wraps the error of EnsureValidToken.
Propagate_Wrapped(op, err) ==
    IF op = "DoRequest" THEN "failed to ensure token: " \o err ELSE err

\* Lines 338 and 346: the error of GetAccessToken is returned as it is by
\* EnsureValidToken and by DoRequest.
Propagate(op, err) == err

\* GetAccessToken, lines 284-322: the token request, the status check, the
\* decoding of the body and the assignment of c.AccessToken.
StoreToken(resp) == resp.access_token

FetchToken(p, TR) ==
    /\ cpc[p] = "gat"
    /\ \E resp \in TR :
         /\ tokenCalls' = [tokenCalls EXCEPT ![p] = Append(@, TokenOutcome(resp))]
         /\ IF TokenCallFailed(resp)
              THEN /\ Return(p, Propagate(cop[p], "auth_error"))
                   /\ UNCHANGED <<AccessToken, tokenSrc, refreshes, expStr, tokResp>>
              ELSE /\ refreshes < MaxRefresh
                   /\ AccessToken' = StoreToken(resp)
                   /\ tokenSrc' = refreshes + 1
                   /\ refreshes' = refreshes + 1
                   /\ expStr' = [expStr EXCEPT ![p] = resp.expires_in]
                   /\ tokResp' = [tokResp EXCEPT ![p] = resp.access_token]
                   /\ cpc' = [cpc EXCEPT ![p] = "gat_expiry"]
                   /\ ret' = ret
    /\ UNCHANGED <<TokenExpiry, now, expirySrc, cop, tokSeen, lastSent,
                   args, domainCalls, domResp, retVal>>
    /\ UNCHANGED <<systemInfo, settingVars, apiVars, webhookVars, routerVars>>

\* GetAccessToken, lines 324-332: strconv.Atoi of expires_in and the
\* assignment of c.TokenExpiry.
StoreExpiry(p) ==
    /\ cpc[p] = "gat_expiry"
    /\ expStr' = [expStr EXCEPT ![p] = <<>>]
    /\ tokResp' = [tokResp EXCEPT ![p] = ""]
    /\ LET n == Atoi(expStr[p]) IN
         IF ~n.ok
           THEN /\ Return(p, Propagate(cop[p], "auth_error"))
                /\ UNCHANGED <<TokenExpiry, expirySrc>>
           ELSE /\ TokenExpiry' = now + n.val
                /\ expirySrc' = tokenSrc
                /\ Ensured(p)
    /\ UNCHANGED <<AccessToken, now, tokenSrc, refreshes, cop, tokSeen, lastSent,
                   args, tokenCalls, domainCalls, domResp, retVal>>
    /\ UNCHANGED <<systemInfo, settingVars, apiVars, webhookVars, routerVars>>

\* Faulty variant: the Idempotency-Key header is always set.
IdempotencyHeader_Always(key) == <<key>>

\* Lines 382-384: the values of the Idempotency-Key header, none for an empty key.
IdempotencyHeader(key) == IF key # "" THEN <<key>> ELSE <<>>

\* Lines 374-379: a plugin header is set for a non-empty value only.
PluginHeader(v) == IF v # "" THEN <<v>> ELSE <<>>

\* Faulty variant: the token is sent without the Bearer scheme.
Headers_NoBearer(token, key, info) ==
    [Authorization |-> token,
     SystemName |-> info.name,
     SystemVersion |-> info.version,
     SystemPluginName |-> PluginHeader(info.pluginName),
     SystemPluginVersion |-> PluginHeader(info.pluginVersion),
     IdempotencyKey |-> IdempotencyHeader(key)]

\* Lines 366-384: the headers of the request that depend on the fields a
\* Client can change and on the arguments (Content-Type,
\* Ocp-Apim-Subscription-Key and Merchant-Serial-Number never change).
Headers(token, key, info) ==
    [Authorization |-> "Bearer " \o token,
     SystemName |-> info.name,
     SystemVersion |-> info.version,
     SystemPluginName |-> PluginHeader(info.pluginName),
     SystemPluginVersion |-> PluginHeader(info.pluginVersion),
     IdempotencyKey |-> IdempotencyHeader(key)]

\* Faulty variant: the body of an error response is not handed on.
DoRequestResult_DropBody(resp) ==
    IF resp.transportErr
      THEN [body |-> "nil", status |-> 0, err |-> "failed to send request"]
    ELSE IF resp.readErr
      THEN [body |-> "nil", status |-> resp.status, err |-> "failed to read response body"]
    ELSE IF resp.status >= 400
      THEN [body |-> "nil", status |-> resp.status,
            err |-> "API error: status code " \o Itoa(resp.status) \o ", body: " \o resp.body]
    ELSE [body |-> resp.body, status |-> resp.status, err |-> "nil"]

\* Faulty variant: a status of 300 or more is taken as an error already.
DoRequestResult_ErrorFrom300(resp) ==
    IF resp.transportErr
      THEN [body |-> "nil", status |-> 0, err |-> "failed to send request"]
    ELSE IF resp.readErr
      THEN [body |-> "nil", status |-> resp.status, err |-> "failed to read response body"]
    ELSE IF resp.status >= 300
      THEN [body |-> resp.body, status |-> resp.status,
            err |-> "API error: status code " \o Itoa(resp.status) \o ", body: " \o resp.body]
    ELSE [body |-> resp.body, status |-> resp.status, err |-> "nil"]

\* Faulty variant: a transport failure is reported with a status.
DoRequestResult_TransportStatus(resp) ==
    IF resp.transportErr
      THEN [body |-> "nil", status |-> 503, err |-> "failed to send request"]
    ELSE IF resp.readErr
      THEN [body |-> "nil", status |-> resp.status, err |-> "failed to read response body"]
    ELSE IF resp.status >= 400
      THEN [body |-> resp.body, status |-> resp.status,
            err |-> "API error: status code " \o Itoa(resp.status) \o ", body: " \o resp.body]
    ELSE [body |-> resp.body, status |-> resp.status, err |-> "nil"]

\* DoRequest, lines 386-415: what is returned for the outcome of
\* c.client.Do(req): the body, the status and the error ("nil" for nil).
DoRequestResult(resp) ==
    IF resp.transportErr
      THEN [body |-> "nil", status |-> 0, err |-> "failed to send request"]
    ELSE IF resp.readErr
      THEN [body |-> "nil", status |-> resp.status, err |-> "failed to read response body"]
    ELSE IF resp.status >= 400
      THEN LET pd == UnmarshalProblem(resp.body) IN
             [body |-> resp.body, status |-> resp.status,
              err |-> IF pd.ok
                        THEN "API error: " \o pd.title \o " - " \o pd.detail
                               \o " (Code: " \o pd.code \o ", Status: " \o Itoa(pd.status) \o ")"
                        ELSE "API error: status code " \o Itoa(resp.status)
                               \o ", body: " \o resp.body]
    ELSE [body |-> resp.body, status |-> resp.status, err |-> "nil"]

\* DoRequest, lines 349-416: the request is built with "Bearer "+c.AccessToken
\* and handed to c.client.Do; the outcome is returned to the caller.  When
\* json.Marshal or http.NewRequest fails nothing is sent.  lastSent.repeat
\* tells whether the request sent before had the same arguments.
SendRequest(p, DR) ==
    /\ cpc[p] = "send"
    /\ \/ \E resp \in DR :
            LET res == DoRequestResult(resp) IN
              /\ lastSent' = [sent |-> TRUE, token |-> AccessToken,
                              fresh |-> now < TokenExpiry, args |-> args[p],
                              headers |-> Headers(AccessToken, args[p].idempotencyKey, systemInfo),
                              repeat |-> lastSent.sent /\ lastSent.args = args[p]]
              /\ domainCalls' = [domainCalls EXCEPT ![p] = @ + 1]
              /\ domResp' = [domResp EXCEPT ![p] = resp]
              /\ retVal' = [retVal EXCEPT ![p] = [body |-> res.body, status |-> res.status]]
              /\ Return(p, res.err)
       \/ /\ Return(p, "build_error")
          /\ UNCHANGED <<lastSent, domainCalls, domResp, retVal>>
    /\ UNCHANGED <<AccessToken, TokenExpiry, now, tokenSrc, expirySrc, refreshes,
                   cop, expStr, tokResp, tokSeen, args, tokenCalls>>
    /\ UNCHANGED <<systemInfo, settingVars, apiVars, webhookVars, routerVars>>

\* SetSystemInfo, lines 258-271, called by a goroutine between two
\* operations: every non-empty argument replaces its field.
SetSystemInfo(p, i) ==
    /\ cpc[p] = "idle"
    /\ systemInfo' =
          [name          |-> IF i.name # "" THEN i.name ELSE systemInfo.name,
           version       |-> IF i.version # "" THEN i.version ELSE systemInfo.version,
           pluginName    |-> IF i.pluginName # "" THEN i.pluginName ELSE systemInfo.pluginName,
           pluginVersion |-> IF i.pluginVersion # "" THEN i.pluginVersion
                                                     ELSE systemInfo.pluginVersion]
    /\ UNCHANGED <<AccessToken, TokenExpiry, now, tokenSrc, expirySrc, refreshes,
                   cpc, cop, expStr, tokResp, tokSeen, ret, lastSent,
                   args, tokenCalls, domainCalls, domResp, retVal>>
    /\ UNCHANGED <<settingVars, apiVars, webhookVars, routerVars>>

\* SetTimeout, lines 274-276, called by a goroutine between two operations.
SetTimeout(p, t) ==
    /\ cpc[p] = "idle"
    /\ timeout' = t
    /\ UNCHANGED <<AccessToken, TokenExpiry, now, tokenSrc, expirySrc, refreshes,
                   cpc, cop, expStr, tokResp, tokSeen, ret, lastSent,
                   args, tokenCalls, domainCalls, domResp, retVal, systemInfo, TestMode>>
    /\ UNCHANGED <<apiVars, webhookVars, routerVars>>

ClientOps == {"DoRequest", "EnsureValidToken", "GetAccessToken", "IsTokenValid"}

\* The steps of the goroutines in G, the arguments of DoRequest being drawn
\* from A, the responses of the two endpoints from TR and DR, and the
\* arguments of SetSystemInfo from SI and those of SetTimeout from T.
ClientStepOn(G, A, TR, DR, SI, T) ==
    \/ Tick
    \/ \E p \in G, a \in A : Call(p, "DoRequest", a)
    \/ \E p \in G, op \in ClientOps \ {"DoRequest"} : Call(p, op, NoArgs)
    \/ \E p \in G : ReadToken(p)
    \/ \E p \in G : ReadExpiry(p)
    \/ \E p \in G : FetchToken(p, TR)
    \/ \E p \in G : StoreExpiry(p)
    \/ \E p \in G : SendRequest(p, DR)
    \/ \E p \in G, i \in SI : SetSystemInfo(p, i)
    \/ \E p \in G, t \in T : SetTimeout(p, t)

(***************************************************************************)
(* pkg/client: the Payment and Webhook API handlers                        *)
(***************************************************************************)

\* The operations of Payment (payment.go) and Webhook: the method, endpoint
\* and body given to DoRequest (reference "r1", webhook id "w1"), the text
\* that wraps an error of DoRequest, and what the response body is decoded
\* into ("none": the body is dropped).
ApiOps ==
    { [name |-> "Payment.Create", method |-> "POST", endpoint |-> "/epayment/v1/payments",
       body |-> "{\"reference\":\"r1\"}", wrap |-> "failed to create payment", into |-> "object"],
      [name |-> "Payment.Get", method |-> "GET", endpoint |-> "/epayment/v1/payments/r1",
       body |-> "nil", wrap |-> "failed to get payment", into |-> "object"],
      [name |-> "Payment.GetEvents", method |-> "GET", endpoint |-> "/epayment/v1/payments/r1/events",
       body |-> "nil", wrap |-> "failed to get payment events", into |-> "array"],
      [name |-> "Payment.Capture", method |-> "POST", endpoint |-> "/epayment/v1/payments/r1/capture",
       body |-> "{\"modificationAmount\":{}}", wrap |-> "failed to capture payment", into |-> "object"],
      [name |-> "Payment.Refund", method |-> "POST", endpoint |-> "/epayment/v1/payments/r1/refund",
       body |-> "{\"modificationAmount\":{}}", wrap |-> "failed to refund payment", into |-> "object"],
      [name |-> "Payment.Cancel", method |-> "POST", endpoint |-> "/epayment/v1/payments/r1/cancel",
       body |-> "{\"cancelTransactionOnly\":false}", wrap |-> "failed to cancel payment", into |-> "object"],
      [name |-> "Payment.ForceApprove", method |-> "POST",
       endpoint |-> "/epayment/v1/test/payments/r1/approve",
       body |-> "{\"customer\":{\"phoneNumber\":\"4712345678\"}}",
       wrap |-> "failed to force approve payment", into |-> "none"],
      [name |-> "Webhook.Register", method |-> "POST", endpoint |-> "/webhooks/v1/webhooks",
       body |-> "{\"url\":\"u\",\"events\":[]}", wrap |-> "failed to register webhook", into |-> "object"],
      [name |-> "Webhook.GetAll", method |-> "GET", endpoint |-> "/webhooks/v1/webhooks",
       body |-> "nil", wrap |-> "failed to get webhooks", into |-> "object or array"],
      [name |-> "Webhook.Get", method |-> "GET", endpoint |-> "/webhooks/v1/webhooks/w1",
       body |-> "nil", wrap |-> "failed to get webhook", into |-> "object"],
      [name |-> "Webhook.Delete", method |-> "DELETE", endpoint |-> "/webhooks/v1/webhooks/w1",
       body |-> "nil", wrap |-> "failed to delete webhook", into |-> "none"] }

ApiOp(name) == CHOOSE o \in ApiOps : o.name = name

\* uuid.New().String(): the text of the n-th identifier generated; every
\* call of uuid.New yields an identifier not generated before.
NewUUID(n) == "uuid-" \o Itoa(n)

\* Faulty variant: one identifier is generated and used for every call.
IdempotencyKeyOf_Reused(name, n) ==
    IF name \in {"Payment.Create", "Payment.Capture", "Payment.Refund", "Payment.ForceApprove"}
      THEN NewUUID(1)
      ELSE ""

\* The idempotency key an operation gives to DoRequest when n identifiers
\* were generated before: uuid.New().String() in Create (line 30), Capture
\* (84), Refund (102) and ForceApprove (149), "" in the others.
IdempotencyKeyOf(name, n) ==
    IF name \in {"Payment.Create", "Payment.Capture", "Payment.Refund", "Payment.ForceApprove"}
      THEN NewUUID(n + 1)
      ELSE ""

\* Faulty variant: ForceApprove goes on whatever the environment.
ForceApproveRefused_Never(testMode) == FALSE

\* ForceApprove, lines 135-137.
ForceApproveRefused(testMode) == ~testMode

\* json.Unmarshal of the body of a successful response of the model into the
\* result of an operation: a struct, a slice, or (Webhook.GetAll) a struct
\* and, failing that, a slice.
EmptyArray == "[]"
UnmarshalsInto(into, b) ==
    CASE into = "object"          -> b = EmptyObject
      [] into = "array"           -> b = EmptyArray
      [] into = "object or array" -> b \in {EmptyObject, EmptyArray}
      [] OTHER                    -> FALSE

\* What an operation returns for the error and body DoRequest returned.
ApiResult(op, err, body) ==
    IF err # "nil" THEN op.wrap \o ": " \o err
    ELSE IF op.into = "none" THEN "nil"
    ELSE IF UnmarshalsInto(op.into, body) THEN "nil"
    ELSE "failed to parse response"

\* Goroutine p calls an operation of Payment or Webhook: ForceApprove
\* returns at once outside the test environment; otherwise the key is
\* generated where the operation has one, and DoRequest is called.
ApiCall(p, op) ==
    /\ cpc[p] = "idle"
    /\ papi[p] = "none" \/ pret[p] # "none"
    /\ Len(invocations) < MaxCalls
    /\ papi' = [papi EXCEPT ![p] = op.name]
    /\ IF op.name = "Payment.ForceApprove" /\ ForceApproveRefused(TestMode)
         THEN /\ pret' = [pret EXCEPT ![p] = "force approve is only available in test environment"]
              /\ invocations' = Append(invocations, [op |-> op.name, called |-> FALSE, key |-> ""])
              /\ UNCHANGED <<uuids, cop, cpc, ret, args, tokenCalls, domainCalls, domResp, retVal>>
         ELSE LET key == IdempotencyKeyOf(op.name, uuids) IN
              /\ pret' = [pret EXCEPT ![p] = "none"]
              /\ uuids' = IF key # "" THEN uuids + 1 ELSE uuids
              /\ invocations' = Append(invocations, [op |-> op.name, called |-> TRUE, key |-> key])
              /\ cop' = [cop EXCEPT ![p] = "DoRequest"]
              /\ cpc' = [cpc EXCEPT ![p] = StartPc("DoRequest")]
              /\ ret' = [ret EXCEPT ![p] = "none"]
              /\ args' = [args EXCEPT ![p] = [method |-> op.method, endpoint |-> op.endpoint,
                                              body |-> op.body, idempotencyKey |-> key]]
              /\ tokenCalls' = [tokenCalls EXCEPT ![p] = <<>>]
              /\ domainCalls' = [domainCalls EXCEPT ![p] = 0]
              /\ domResp' = [domResp EXCEPT ![p] = NoResp]
              /\ retVal' = [retVal EXCEPT ![p] = NoRet]
    /\ UNCHANGED <<AccessToken, TokenExpiry, now, tokenSrc, expirySrc, refreshes,
                   expStr, tokResp, tokSeen, lastSent>>
    /\ UNCHANGED <<systemInfo, settingVars, webhookVars, routerVars>>

\* DoRequest has returned to the operation, which returns to its caller.
ApiReturn(p) ==
    /\ papi[p] # "none"
    /\ pret[p] = "none"
    /\ cpc[p] = "idle"
    /\ pret' = [pret EXCEPT ![p] = ApiResult(ApiOp(papi[p]), ret[p], retVal[p].body)]
    /\ UNCHANGED <<AccessToken, TokenExpiry, now, tokenSrc, expirySrc, refreshes,
                   cpc, cop, expStr, tokResp, tokSeen, ret, lastSent,
                   args, tokenCalls, domainCalls, domResp, retVal>>
    /\ UNCHANGED <<systemInfo, settingVars, uuids, invocations, papi, webhookVars, routerVars>>

\* The steps of the goroutines in G that use the Client through Payment and
\* Webhook, the responses of the two endpoints being drawn from TR and DR.
ApiStepOn(G, TR, DR) ==
    \/ \E p \in G, op \in ApiOps : ApiCall(p, op)
    \/ \E p \in G : ReadToken(p)
    \/ \E p \in G : ReadExpiry(p)
    \/ \E p \in G : FetchToken(p, TR)
    \/ \E p \in G : StoreExpiry(p)
    \/ \E p \in G : SendRequest(p, DR)
    \/ \E p \in G : ApiReturn(p)

(***************************************************************************)
(* pkg/webhooks                                                            *)
(***************************************************************************)

\* base64(SHA-256(b)) and base64(HMAC-SHA256(key, msg)), as injective
\* constructors (no key of the model holds a comma).
Sha256B64(b) == "sha256(" \o b \o ")"
HmacB64(key, msg) == "hmac(" \o key \o "," \o msg \o ")"

\* The request bodies of the model and json.Unmarshal into WebhookEvent on them.
BodyCaptured == "{\"name\":\"CAPTURED\",\"reference\":\"order-1\"}"
BodyOther == "{\"name\":\"CAPTURED\",\"reference\":\"order-2\"}"
BodyMalformed == "{\"name\":"
BodyAuthorized == "{\"name\":\"AUTHORIZED\",\"reference\":\"order-3\"}"
Bodies == {BodyCaptured, BodyOther, BodyMalformed}

NoEvent == [name |-> "", reference |-> ""]

\* Faulty variant: every body decodes, a malformed one into the zero event.
JsonUnmarshal_AcceptAll(b) == [ok |-> TRUE, event |-> NoEvent]

JsonUnmarshal(b) ==
    CASE b = BodyCaptured -> [ok |-> TRUE, event |-> [name |-> "CAPTURED", reference |-> "order-1"]]
      [] b = BodyOther    -> [ok |-> TRUE, event |-> [name |-> "CAPTURED", reference |-> "order-2"]]
      [] b = BodyAuthorized
                          -> [ok |-> TRUE, event |-> [name |-> "AUTHORIZED", reference |-> "order-3"]]
      [] OTHER            -> [ok |-> FALSE, event |-> NoEvent]

\* io.ReadAll(r.Body): the reader fails, or yields the unread bytes.
NoBody == [data |-> "", fails |-> FALSE]
ReadAll(rb) == [ok |-> ~rb.fails, data |-> rb.data]

\* Faulty variant: X-Vipps-Authorization takes precedence over Authorization.
AuthHeaderOf_VippsFirst(r) == IF r.xauth # "" THEN r.xauth ELSE r.auth

\* Lines 57-63: Authorization, else X-Vipps-Authorization.
AuthHeaderOf(r) == IF r.auth # "" THEN r.auth ELSE r.xauth

\* Faulty variant: the Host entry takes precedence over X-Forwarded-Host.
ResolveHost_HostFirst(r) == IF r.host # "" THEN r.host ELSE r.xfh

\* Lines 66-69: X-Forwarded-Host, else the Host entry of r.Header.
ResolveHost(r) == IF r.xfh # "" THEN r.xfh ELSE r.host

\* Faulty variant: X-Ms-Date is left out of the string to be signed.
SignedString_NoDate(method, path, date, host, chash) ==
    method \o "\n" \o path \o "\n" \o ";" \o host \o ";" \o chash

\* Lines 72-77: the string to be signed.
SignedString(method, path, date, host, chash) ==
    method \o "\n" \o path \o "\n" \o date \o ";" \o host \o ";" \o chash

\* Lines 80-86: the Authorization value the verifier expects.
AuthPrefix == "HMAC-SHA256 SignedHeaders=x-ms-date;host;x-ms-content-sha256&Signature="

ExpectedAuthHeader(key, r) ==
    AuthPrefix \o HmacB64(key, SignedString(r.method, r.path, r.date, ResolveHost(r), r.chash))

\* Lines 50-54: a declared content hash that differs from the computed one
\* is printed and the verification goes on.
ContentHashMismatch(r, body) == Sha256B64(body) # r.chash

\* Faulty variant: the body is not put back after it was read.
RestoreBody_Drained(data) == [data |-> "", fails |-> FALSE]

\* Line 38: r.Body is replaced by a fresh reader over the bytes read.
RestoreBody(data) == [data |-> data, fails |-> FALSE]

\* Handler.ValidateSignature (lines 30-97) with key h.SecretKey on request r
\* whose body reader is rb: the error returned ("ok" for nil), the body
\* reader left in r.Body, and whether a content-hash mismatch was printed.
ValidateSignature(key, r, rb) ==
    LET read == ReadAll(rb) IN
    IF ~read.ok
      THEN [err |-> "read_error", rBody |-> rb, mismatch |-> FALSE]
      ELSE
        LET restored == RestoreBody(read.data)
            mismatch == r.chash # "" /\ ContentHashMismatch(r, read.data)
            err ==
              IF r.chash = "" THEN "missing_content_hash"
              ELSE IF AuthHeaderOf(r) = "" THEN "missing_authorization"
              ELSE IF ExpectedAuthHeader(key, r) # AuthHeaderOf(r)
                     THEN "signature_validation_failed"
              ELSE "ok"
        IN [err |-> err, rBody |-> restored, mismatch |-> mismatch]

\* Faulty variant: the test of the secret is inverted.
NeedsValidation_Inverted(key) == key = ""

\* Faulty variant: the signature is validated whatever the secret.
NeedsValidation_Always(key) == TRUE

\* Handler.ParseEvent (lines 100-121), first half: the signature is validated
\* only with a non-empty secret.
NeedsValidation(key) == key # ""

\* Faulty variant: the error of json.Unmarshal is dropped.
DecodeBody_IgnoreError(rb) ==
    LET read == ReadAll(rb) IN
    IF ~read.ok THEN [ok |-> FALSE, event |-> NoEvent]
    ELSE [ok |-> TRUE, event |-> JsonUnmarshal(read.data).event]

\* Handler.ParseEvent, second half (lines 108-120): read and decode the body.
DecodeBody(rb) ==
    LET read == ReadAll(rb) IN
    IF ~read.ok THEN [ok |-> FALSE, event |-> NoEvent]
    ELSE JsonUnmarshal(read.data)

\* The status codes HandleHTTP writes.
StatusMethodNotAllowed == 405
StatusBadRequest == 400
StatusInternalServerError == 500
StatusOK == 200

\* ---- Router (lines 156-199) ------------------------------------------------

\* Event names: two of the PaymentEventName constants and a name that is none
\* of them; the names handlers get registered for; the caller's functions;
\* the nil EventProcessor; a name without an entry in the map.
EventNames == {"CAPTURED", "AUTHORIZED", "UNKNOWN"}
RegNames == {"CAPTURED", "AUTHORIZED"}
HandlerFuncs == {"h1", "h2"}
NilFunc == "nil"
NoEntry == "absent"
Registrable == HandlerFuncs \cup {NilFunc}

\* What one call of each of the caller's functions returns: nil or its own error.
HandlerError(h) == "error of " \o h
Runs == { [h \in HandlerFuncs |-> IF h \in S THEN "nil" ELSE HandlerError(h)] :
            S \in SUBSET HandlerFuncs }

NoRouted == [name |-> "", via |-> "", called |-> <<>>, ret |-> "none", err |-> "none"]

\* NewRouter (lines 165-169): an empty map and no fallback.
RouterInit ==
    /\ handlers = [n \in EventNames |-> NoEntry]
    /\ fallback = NilFunc
    /\ regLog = <<>>
    /\ routed = NoRouted

\* Faulty variant: an entry that is there is kept.
SetHandler_KeepFirst(hs, n, h) == IF hs[n] = NoEntry THEN [hs EXCEPT ![n] = h] ELSE hs

\* Lines 173 and 178: r.handlers[eventName] = handler.
SetHandler(hs, n, h) == [hs EXCEPT ![n] = h]

\* A registration call is made at startup, while no request is being served
\* and before the first concurrent delivery.
Registered(op, n, h) ==
    /\ wpc = "idle"
    /\ \A d \in DOMAIN deliveries : deliveries[d].pc = "new"
    /\ Len(regLog) < MaxRegs
    /\ regLog' = Append(regLog, [op |-> op, name |-> n, h |-> h])
    /\ routed' = NoRouted
    /\ deliveries' = deliveries
    /\ UNCHANGED <<clientVars, webhookVars>>

\* Router.Handle (lines 172-174).
Handle(n, h) ==
    /\ Registered("Handle", n, h)
    /\ handlers' = SetHandler(handlers, n, h)
    /\ fallback' = fallback

\* Router.HandleFunc (lines 177-179).
HandleFunc(n, f) ==
    /\ Registered("HandleFunc", n, f)
    /\ handlers' = SetHandler(handlers, n, f)
    /\ fallback' = fallback

\* Router.HandleDefault (lines 182-184).
HandleDefault(h) ==
    /\ Registered("HandleDefault", "", h)
    /\ fallback' = h
    /\ handlers' = handlers

\* r.handlers[name] of line 190: the entry, if the map has one for the name.
Lookup(hs, name) == IF name \in DOMAIN hs THEN hs[name] ELSE NoEntry

\* Faulty variant: an event nobody handles is dropped silently.
Process_SilentDrop(hs, fb, name, run) ==
    IF Lookup(hs, name) # NoEntry
      THEN IF Lookup(hs, name) = NilFunc
             THEN [via |-> "panic", called |-> <<>>, err |-> "panic"]
             ELSE [via |-> "handler", called |-> <<Lookup(hs, name)>>, err |-> run[Lookup(hs, name)]]
    ELSE IF fb # NilFunc
      THEN [via |-> "fallback", called |-> <<fb>>, err |-> run[fb]]
    ELSE [via |-> "none", called |-> <<>>, err |-> "nil"]

\* Faulty variant: the fallback also runs when the handler of the name fails.
Process_FallbackOnError(hs, fb, name, run) ==
    IF Lookup(hs, name) # NoEntry
      THEN IF Lookup(hs, name) = NilFunc
             THEN [via |-> "panic", called |-> <<>>, err |-> "panic"]
             ELSE IF run[Lookup(hs, name)] # "nil" /\ fb # NilFunc
                    THEN [via |-> "fallback", called |-> <<Lookup(hs, name), fb>>, err |-> run[fb]]
                    ELSE [via |-> "handler", called |-> <<Lookup(hs, name)>>, err |-> run[Lookup(hs, name)]]
    ELSE IF fb # NilFunc
      THEN [via |-> "fallback", called |-> <<fb>>, err |-> run[fb]]
    ELSE [via |-> "none", called |-> <<>>, err |-> "no handler for event type: " \o name]

\* Faulty variant: the fallback is not consulted.
Process_NoFallback(hs, fb, name, run) ==
    IF Lookup(hs, name) # NoEntry
      THEN IF Lookup(hs, name) = NilFunc
             THEN [via |-> "panic", called |-> <<>>, err |-> "panic"]
             ELSE [via |-> "handler", called |-> <<Lookup(hs, name)>>, err |-> run[Lookup(hs, name)]]
    ELSE [via |-> "none", called |-> <<>>, err |-> "no handler for event type: " \o name]

\* Router.Process (lines 187-199) on an event of the given name, run telling
\* what each function returns when called: the functions called in order, the
\* branch taken and the error returned ("nil" for nil).  An entry of the map
\* is called whatever it holds (line 190 tests ok only); calling a nil
\* function panics.
Process(hs, fb, name, run) ==
    IF Lookup(hs, name) # NoEntry
      THEN IF Lookup(hs, name) = NilFunc
             THEN [via |-> "panic", called |-> <<>>, err |-> "panic"]
             ELSE [via |-> "handler", called |-> <<Lookup(hs, name)>>, err |-> run[Lookup(hs, name)]]
    ELSE IF fb # NilFunc
      THEN [via |-> "fallback", called |-> <<fb>>, err |-> run[fb]]
    ELSE [via |-> "none", called |-> <<>>, err |-> "no handler for event type: " \o name]

\* The record of a call of Process: what it did, and what the last function
\* it called returned.
RoutedOf(name, out, run) ==
    [name |-> name, via |-> out.via, called |-> out.called,
     ret |-> IF out.called = <<>> THEN "none" ELSE run[out.called[Len(out.called)]],
     err |-> out.err]

\* A caller applies Router.Process to an event directly.
ProcessCall(name, run) ==
    /\ wpc = "idle"
    /\ routed' = RoutedOf(name, Process(handlers, fallback, name, run), run)
    /\ UNCHANGED <<handlers, fallback, regLog, deliveries, clientVars, webhookVars>>

\* ---- the sender and the network ------------------------------------------
Secrets == {"s1", "s2"}
Methods == {"POST", "GET"}
Paths == {"/webhook", "/other"}
Dates == {"", "d1"}
FwdHosts == {"", "fwd"}
Hosts == {"", "host"}
Garbage == "HMAC-SHA256 garbage"

NoReq == [method |-> "", path |-> "", date |-> "", xfh |-> "", host |-> "",
          chash |-> "", auth |-> "", xauth |-> "", vsig |-> "", body |-> "",
          readErr |-> FALSE]
NoSigned == [key |-> "", method |-> "", path |-> "", date |-> "", host |-> "",
             chash |-> "", auth |-> ""]

\* What the provider puts into the authorization header of a request it
\* signs with key k.
ProviderAuthHeader(k, method, path, date, host, chash) ==
    "HMAC-SHA256 SignedHeaders=x-ms-date;host;x-ms-content-sha256&Signature="
      \o "hmac(" \o k \o "," \o method \o "\n" \o path \o "\n" \o date \o ";" \o host
      \o ";" \o chash \o ")"

\* The request a holder of key k sends for body b: scheme "B" carries the
\* content hash and the authorization value over the canonical string (the
\* host signed is the forwarded host when there is one), scheme "A" only
\* X-Vipps-Signature = base64(HMAC-SHA256(k, b)).
SignedRequest(k, scheme, date, xfh, host, b) ==
    LET base == [NoReq EXCEPT !.method = "POST", !.path = "/webhook", !.date = date,
                              !.xfh = xfh, !.host = host, !.body = b]
        hash == "sha256(" \o b \o ")"
    IN  IF scheme = "A"
          THEN [base EXCEPT !.vsig = "hmac(" \o k \o "," \o b \o ")"]
          ELSE [base EXCEPT !.chash = hash,
                            !.auth = ProviderAuthHeader(k, "POST", "/webhook", date,
                                        IF xfh # "" THEN xfh ELSE host, hash)]

\* The values a field of the request in flight may be changed to.
FieldValues(f) ==
    CASE f = "method" -> Methods
      [] f = "path"   -> Paths
      [] f = "date"   -> Dates
      [] f = "xfh"    -> FwdHosts
      [] f = "host"   -> Hosts
      [] f = "chash"  -> {""} \cup {Sha256B64(b) : b \in Bodies}
      [] f = "auth"   -> {"", Garbage, signed.auth}
      [] f = "xauth"  -> {"", signed.auth}
      [] f = "vsig"   -> {""} \cup {HmacB64(k, b) : k \in Secrets, b \in Bodies}
      [] f = "body"   -> Bodies
Fields == {"method", "path", "date", "xfh", "host", "chash", "auth", "xauth", "vsig", "body"}

WebhookInit ==
    /\ SecretKey \in {"", "s1"}
    /\ req = NoReq
    /\ signed = NoSigned
    /\ tampers = 0
    /\ rBody = NoBody
    /\ wpc = "idle"
    /\ status = 0
    /\ writes = 0
    /\ sigResult = "none"
    /\ event = NoEvent
    /\ invoked = 0
    /\ handlerResult = "none"
    /\ stages = <<>>
    /\ endpoint \in {"func", "router"}
    /\ validations = 0

\* A sender builds and signs a request.
Sign(k, scheme, date, xfh, host, b) ==
    /\ wpc = "idle"
    /\ LET r == SignedRequest(k, scheme, date, xfh, host, b) IN
         /\ req' = r
         /\ signed' = [key |-> k, method |-> r.method, path |-> r.path, date |-> r.date,
                       host |-> IF xfh # "" THEN xfh ELSE host, chash |-> r.chash,
                       auth |-> r.auth]
    /\ wpc' = "wire"
    /\ UNCHANGED <<SecretKey, tampers, rBody, status, writes, sigResult, event, invoked,
                   handlerResult, stages, clientVars, routerVars, endpoint, validations>>

\* The request is over; its history is forgotten.
Finish ==
    /\ wpc \in {"done", "validated", "panicked"}
    /\ req' = NoReq
    /\ signed' = NoSigned
    /\ tampers' = 0
    /\ rBody' = NoBody
    /\ wpc' = "idle"
    /\ status' = 0
    /\ writes' = 0
    /\ sigResult' = "none"
    /\ event' = NoEvent
    /\ invoked' = 0
    /\ handlerResult' = "none"
    /\ stages' = <<>>
    /\ validations' = 0
    /\ routed' = NoRouted
    /\ UNCHANGED <<SecretKey, clientVars, handlers, fallback, regLog, deliveries, endpoint>>

\* The request is changed on its way: one field gets another value.
Tamper(f, v) ==
    /\ wpc = "wire"
    /\ tampers < MaxTampers
    /\ v # req[f]
    /\ req' = [req EXCEPT ![f] = v]
    /\ tampers' = tampers + 1
    /\ UNCHANGED <<SecretKey, signed, rBody, wpc, status, writes, sigResult, event,
                   invoked, handlerResult, stages, clientVars, routerVars, endpoint, validations>>

\* The connection breaks while the body is read.
BreakBody ==
    /\ wpc = "wire"
    /\ tampers < MaxTampers
    /\ ~req.readErr
    /\ req' = [req EXCEPT !.readErr = TRUE]
    /\ tampers' = tampers + 1
    /\ UNCHANGED <<SecretKey, signed, rBody, wpc, status, writes, sigResult, event,
                   invoked, handlerResult, stages, clientVars, routerVars, endpoint, validations>>

\* A caller applies Handler.ValidateSignature to the request directly.
ValidateCall ==
    /\ wpc = "wire"
    /\ LET v == ValidateSignature(SecretKey, req, [data |-> req.body, fails |-> req.readErr]) IN
         /\ sigResult' = v.err
         /\ rBody' = v.rBody
    /\ validations' = validations + 1
    /\ wpc' = "validated"
    /\ UNCHANGED <<SecretKey, req, signed, tampers, status, writes, event, invoked,
                   handlerResult, stages, clientVars, routerVars, endpoint>>

\* ---- the http.HandlerFunc of Handler.HandleHTTP (lines 125-152) ----------

\* http.Error / w.WriteHeader: the status line is written.
WriteStatus(code) ==
    /\ status' = code
    /\ writes' = writes + 1

\* The server calls the HandlerFunc with the request (lines 125-128).
Serve ==
    /\ wpc = "wire"
    /\ rBody' = [data |-> req.body, fails |-> req.readErr]
    /\ stages' = <<"received">>
    /\ wpc' = "method"
    /\ UNCHANGED <<SecretKey, req, signed, tampers, status, writes, sigResult, event,
                   invoked, handlerResult, clientVars, routerVars, endpoint, validations>>

\* Faulty variant: GET is allowed as well.
MethodAllowed_GetToo(m) == m \in {"POST", "GET"}

\* Faulty variant: every method is allowed.
MethodAllowed_Any(m) == TRUE

\* Lines 131-134: only POST is allowed.
MethodAllowed(m) == m = "POST"

CheckMethod ==
    /\ wpc = "method"
    /\ IF MethodAllowed(req.method)
         THEN /\ wpc' = "verify"
              /\ UNCHANGED <<status, writes, stages>>
         ELSE /\ WriteStatus(StatusMethodNotAllowed)
              /\ stages' = Append(stages, "failed")
              /\ wpc' = "done"
    /\ UNCHANGED <<SecretKey, req, signed, tampers, rBody, sigResult, event,
                   invoked, handlerResult, clientVars, routerVars, endpoint, validations>>

\* Faulty variant: the error of ValidateSignature is dropped.
ValidationFailed_Never(err) == FALSE

\* ParseEvent line 103: err != nil.
ValidationFailed(err) == err # "ok"

\* ParseEvent lines 102-106 and, on its error, HandleHTTP lines 138-141.
Verify ==
    /\ wpc = "verify"
    /\ IF NeedsValidation(SecretKey)
         THEN LET v == ValidateSignature(SecretKey, req, rBody) IN
                /\ sigResult' = v.err
                /\ rBody' = v.rBody
                /\ validations' = validations + 1
                /\ IF ~ValidationFailed(v.err)
                     THEN /\ stages' = Append(stages, "signature-checked")
                          /\ wpc' = "decode"
                          /\ UNCHANGED <<status, writes>>
                     ELSE /\ WriteStatus(StatusBadRequest)
                          /\ stages' = Append(stages, "failed")
                          /\ wpc' = "done"
         ELSE /\ wpc' = "decode"
              /\ UNCHANGED <<sigResult, rBody, stages, status, writes, validations>>
    /\ UNCHANGED <<SecretKey, req, signed, tampers, event, invoked, handlerResult,
                   clientVars, routerVars, endpoint>>

\* ParseEvent lines 108-120 and, on its error, HandleHTTP lines 138-141.
Decode ==
    /\ wpc = "decode"
    /\ LET d == DecodeBody(rBody) IN
         IF d.ok
           THEN /\ event' = d.event
                /\ rBody' = NoBody
                /\ stages' = Append(stages, "body-decoded")
                /\ wpc' = "dispatch"
                /\ UNCHANGED <<status, writes>>
           ELSE /\ WriteStatus(StatusBadRequest)
                /\ stages' = Append(stages, "failed")
                /\ wpc' = "done"
                /\ UNCHANGED <<event, rBody>>
    /\ UNCHANGED <<SecretKey, req, signed, tampers, sigResult, invoked, handlerResult,
                   clientVars, routerVars, endpoint, validations>>

\* Lines 144-148: handler(event) is called; it returns nil or an error, and
\* an error is answered with 500.  The handler is the function given to
\* HandleHTTP: some function of the caller, or router.Process.  A panic
\* leaves the HandlerFunc without a status having been written.
HandlerResults == {"nil", "error"}

Dispatch ==
    /\ wpc = "dispatch"
    /\ invoked' = invoked + 1
    /\ \E res \in HandlerResults, run \in Runs :
         LET out == Process(handlers, fallback, event.name, run)
             r   == IF endpoint = "func" THEN res
                    ELSE IF out.err = "nil" THEN "nil"
                    ELSE IF out.err = "panic" THEN "panic"
                    ELSE "error"
         IN /\ handlerResult' = r
            /\ routed' = IF endpoint = "func" THEN routed
                         ELSE RoutedOf(event.name, out, run)
            /\ CASE r = "nil" ->
                      /\ stages' = Append(stages, "dispatched")
                      /\ wpc' = "ack"
                      /\ UNCHANGED <<status, writes>>
                 [] r = "error" ->
                      /\ WriteStatus(StatusInternalServerError)
                      /\ stages' = stages \o <<"dispatched", "failed">>
                      /\ wpc' = "done"
                 [] OTHER ->
                      /\ stages' = stages \o <<"dispatched", "failed">>
                      /\ wpc' = "panicked"
                      /\ UNCHANGED <<status, writes>>
    /\ UNCHANGED <<SecretKey, req, signed, tampers, rBody, sigResult, event, clientVars,
                   handlers, fallback, regLog, deliveries, endpoint, validations>>

\* Line 151: the event is acknowledged.
Ack ==
    /\ wpc = "ack"
    /\ WriteStatus(StatusOK)
    /\ stages' = Append(stages, "acknowledged")
    /\ wpc' = "done"
    /\ UNCHANGED <<SecretKey, req, signed, tampers, rBody, sigResult, event, invoked,
                   handlerResult, clientVars, routerVars, endpoint, validations>>

WebhookNext ==
    \/ \E k \in Secrets, scheme \in {"A", "B"}, date \in Dates, xfh \in FwdHosts,
          host \in Hosts, b \in Bodies : Sign(k, scheme, date, xfh, host, b)
    \/ \E f \in Fields : \E v \in FieldValues(f) : Tamper(f, v)
    \/ BreakBody
    \/ ValidateCall
    \/ Serve
    \/ CheckMethod
    \/ Verify
    \/ Decode
    \/ Dispatch
    \/ Ack
    \/ Finish

\* ---- concurrent calls of the HandlerFunc -----------------------------------

\* The server runs the HandlerFunc of HandleHTTP(router.Process) once per
\* request, each call in its own goroutine with its own w and r.
Deliveries == 1..NumDeliveries

NoDelivery ==
    [pc |-> "new", req |-> NoReq, run |-> <<>>, rBody |-> NoBody, event |-> NoEvent,
     status |-> 0, writes |-> 0, called |-> <<>>, err |-> "none", overlap |-> FALSE]

DeliveriesInit == deliveries = [d \in Deliveries |-> NoDelivery]

\* The requests that arrive: signed by the provider with "s1" for three
\* bodies, signed with another key, and a GET.
DeliveryRequests ==
    {SignedRequest("s1", "B", "d1", "", "host", b) : b \in {BodyCaptured, BodyAuthorized, BodyMalformed}}
    \cup {SignedRequest("s2", "B", "d1", "", "host", BodyCaptured)}
    \cup {[SignedRequest("s1", "B", "d1", "", "host", BodyCaptured) EXCEPT !.method = "GET"]}

\* What the caller's functions return when a delivery calls them.
DeliveryRuns == { run \in Runs : run["h1"] = "nil" }
NoRun == [h \in HandlerFuncs |-> "none"]

InFlight(D) == D.pc \notin {"new", "done", "panicked"}

\* A step of the call serving delivery d: its own record changes, nothing else.
Deliver(d, D) ==
    /\ deliveries' = [deliveries EXCEPT ![d] = D]
    /\ UNCHANGED <<handlers, fallback, regLog, routed, clientVars, webhookVars>>

\* Lines 125-128: the server calls the HandlerFunc with request r.  The
\* registrations are over and their log is forgotten; overlap tells, in every
\* record, whether two calls have been running at a time.
Arrive(d, r) ==
    /\ deliveries[d].pc = "new"
    /\ LET over == \E o \in Deliveries : deliveries[o].overlap \/ InFlight(deliveries[o]) IN
         deliveries' =
           [e \in Deliveries |->
              IF e = d
                THEN [NoDelivery EXCEPT !.pc = "method", !.req = r,
                                        !.rBody = [data |-> r.body, fails |-> r.readErr],
                                        !.overlap = over]
                ELSE [deliveries[e] EXCEPT !.overlap = over]]
    /\ regLog' = <<>>
    /\ UNCHANGED <<handlers, fallback, routed, clientVars, webhookVars>>

\* Lines 131-134.
DeliverCheckMethod(d) ==
    LET D == deliveries[d] IN
    /\ D.pc = "method"
    /\ Deliver(d, IF MethodAllowed(D.req.method)
                    THEN [D EXCEPT !.pc = "verify"]
                    ELSE [D EXCEPT !.pc = "done", !.status = StatusMethodNotAllowed,
                                   !.writes = @ + 1])

\* ParseEvent lines 102-106 and, on its error, HandleHTTP lines 138-141.
DeliverVerify(d) ==
    LET D == deliveries[d]
        v == ValidateSignature(SecretKey, D.req, D.rBody)
    IN
    /\ D.pc = "verify"
    /\ Deliver(d, IF ~NeedsValidation(SecretKey)
                    THEN [D EXCEPT !.pc = "decode"]
                  ELSE IF ~ValidationFailed(v.err)
                    THEN [D EXCEPT !.pc = "decode", !.rBody = v.rBody]
                  ELSE [D EXCEPT !.pc = "done", !.rBody = v.rBody,
                                 !.status = StatusBadRequest, !.writes = @ + 1])

\* ParseEvent lines 108-120 and, on its error, HandleHTTP lines 138-141.
DeliverDecode(d) ==
    LET D == deliveries[d]
        dec == DecodeBody(D.rBody)
    IN
    /\ D.pc = "decode"
    /\ Deliver(d, IF dec.ok
                    THEN [D EXCEPT !.pc = "dispatch", !.event = dec.event, !.rBody = NoBody]
                    ELSE [D EXCEPT !.pc = "done", !.status = StatusBadRequest,
                                   !.writes = @ + 1])

\* What the call is after router.Process returned out (lines 144-148).
Dispatched(D, out) ==
    IF out.err = "panic"
      THEN [D EXCEPT !.pc = "panicked", !.called = out.called, !.err = out.err]
    ELSE IF out.err = "nil"
      THEN [D EXCEPT !.pc = "ack", !.called = out.called, !.err = out.err]
    ELSE [D EXCEPT !.pc = "done", !.called = out.called, !.err = out.err,
                   !.status = StatusInternalServerError, !.writes = @ + 1]

\* Faulty variant: Process takes the entry it called out of the map.
DeliverDispatch_OneShot(d, run) ==
    LET D == [deliveries[d] EXCEPT !.run = run]
        out == Process(handlers, fallback, D.event.name, run)
    IN
    /\ D.pc = "dispatch"
    /\ deliveries' = [deliveries EXCEPT ![d] = Dispatched(D, out)]
    /\ handlers' = IF out.via = "handler"
                     THEN [handlers EXCEPT ![D.event.name] = NoEntry]
                     ELSE handlers
    /\ UNCHANGED <<fallback, regLog, routed, clientVars, webhookVars>>

\* Lines 144-148 with router.Process (lines 187-199) as the handler: the map
\* and the fallback are read; run tells what the caller's functions return
\* to this call.
DeliverDispatch(d, run) ==
    LET D == [deliveries[d] EXCEPT !.run = run]
        out == Process(handlers, fallback, D.event.name, run)
    IN
    /\ D.pc = "dispatch"
    /\ Deliver(d, Dispatched(D, out))

\* Line 151.
DeliverAck(d) ==
    LET D == deliveries[d] IN
    /\ D.pc = "ack"
    /\ Deliver(d, [D EXCEPT !.pc = "done", !.status = StatusOK, !.writes = @ + 1])

\* The HandlerFunc of HandleHTTP(router.Process) (lines 125-152) run from its
\* first line to its last on request r, with secret key, map hs and fallback
\* fb: the status written, the functions called and the error of Process.
HandleHTTPAlone(key, hs, fb, r, run) ==
    LET rb  == [data |-> r.body, fails |-> r.readErr]
        v   == ValidateSignature(key, r, rb)
        rb2 == IF NeedsValidation(key) THEN v.rBody ELSE rb
        dec == DecodeBody(rb2)
        out == Process(hs, fb, dec.event.name, run)
    IN  IF ~MethodAllowed(r.method)
          THEN [status |-> StatusMethodNotAllowed, called |-> <<>>, err |-> "none"]
        ELSE IF NeedsValidation(key) /\ ValidationFailed(v.err)
          THEN [status |-> StatusBadRequest, called |-> <<>>, err |-> "none"]
        ELSE IF ~dec.ok
          THEN [status |-> StatusBadRequest, called |-> <<>>, err |-> "none"]
        ELSE IF out.err = "panic"
          THEN [status |-> 0, called |-> out.called, err |-> out.err]
        ELSE IF out.err = "nil"
          THEN [status |-> StatusOK, called |-> out.called, err |-> out.err]
        ELSE [status |-> StatusInternalServerError, called |-> out.called, err |-> out.err]

Init == ClientInit /\ WebhookInit /\ RouterInit /\ DeliveriesInit

\* The Client is used next to a Handler without secret whose endpoint has a
\* plain function as its handler.
ClientOnlyInit == Init /\ SecretKey = "" /\ endpoint = "func"

\* Plain calls of DoRequest: reads without idempotency key, to which the
\* domain endpoint fails at transport level or answers 200 or 401.
PlainArgs == {a \in DoRequestArgs : a.method = "GET"}
PlainDomainResponses ==
    {r \in DomainResponses : r.transportErr \/ (r.status \in {200, 401} /\ r.body = NotJson /\ ~r.readErr)}

\* One goroutine uses the Client, with every response of the token endpoint
\* and plain calls of DoRequest.
Next ==
    ClientStepOn({1}, PlainArgs, TokenResponses, PlainDomainResponses, SystemInfoArgs, Timeouts)
Spec == ClientOnlyInit /\ [][Next]_vars

\* One goroutine uses the Client, with every argument of DoRequest and every
\* response of the domain endpoint; the token endpoint fails at transport
\* level or answers 200 with a token that lasts two seconds; SetTimeout is
\* called with the default.
RequestTokenResponses ==
    {r \in TokenResponses :
       r.transportErr \/ (r.status = 200 /\ r.decodable /\ r.access_token # ""
                             /\ r.expires_in = <<"2">>)}
NextRequests ==
    ClientStepOn({1}, DoRequestArgs, RequestTokenResponses, DomainResponses, SystemInfoArgs,
                 {defaultTimeout})
SpecRequests == ClientOnlyInit /\ [][NextRequests]_vars

\* Several goroutines use the Client, for plain calls of DoRequest; the token
\* endpoint fails at transport level or answers 200 with a body that
\* decodes; SetSystemInfo is called without a new name and SetTimeout with
\* the default.
ConcTokenResponses == {r \in TokenResponses : r.transportErr \/ (r.status = 200 /\ r.decodable)}
ConcSystemInfoArgs == {i \in SystemInfoArgs : i.name = ""}
NextConc ==
    ClientStepOn(Procs, PlainArgs, ConcTokenResponses, PlainDomainResponses, ConcSystemInfoArgs,
                 {defaultTimeout})
SpecConc == ClientOnlyInit /\ [][NextConc]_vars

\* The webhook endpoint serves requests.
SpecWebhook == Init /\ [][WebhookNext]_vars

\* A Router is set up and used, directly and as the handler of the endpoint,
\* for requests the provider signed with the key "s1".
RouterNext ==
    \/ \E n \in RegNames, h \in Registrable : Handle(n, h)
    \/ \E n \in RegNames, f \in Registrable : HandleFunc(n, f)
    \/ \E h \in Registrable : HandleDefault(h)
    \/ \E name \in EventNames, run \in Runs : ProcessCall(name, run)
    \/ \E b \in Bodies : Sign("s1", "B", "d1", "", "host", b)
    \/ Serve
    \/ CheckMethod
    \/ Verify
    \/ Decode
    \/ Dispatch
    \/ Ack
    \/ Finish
SpecRouter == Init /\ [][RouterNext]_vars

\* A Router is set up, and then the endpoint, with router.Process as its
\* handler, serves several requests at a time.
DeliveriesNext ==
    \/ \E h \in Registrable : Handle("CAPTURED", h)
    \/ \E f \in {"h2"} : HandleFunc("AUTHORIZED", f)
    \/ \E h \in {"h1"} : HandleDefault(h)
    \/ \E d \in Deliveries, r \in DeliveryRequests : Arrive(d, r)
    \/ \E d \in Deliveries : DeliverCheckMethod(d)
    \/ \E d \in Deliveries : DeliverVerify(d)
    \/ \E d \in Deliveries : DeliverDecode(d)
    \/ \E d \in Deliveries, run \in DeliveryRuns : DeliverDispatch(d, run)
    \/ \E d \in Deliveries : DeliverAck(d)
ServingInit == Init /\ endpoint = "router"
SpecDeliveries == ServingInit /\ [][DeliveriesNext]_vars

(***************************************************************************)
(* Claims about pkg/client                                                 *)
(***************************************************************************)

\* C1: whenever DoRequest hands a request to the domain endpoint, the access
\* token it carries is non-empty and the stored expiry is in the future, for
\* every 200 token response (an empty access_token and an expires_in of zero
\* or less included).
C1_SentTokenIsValid ==
    lastSent.sent => (lastSent.token # "" /\ lastSent.fresh)

\* C2: under any interleaving of calls on one Client, a reader of the pair
\* (IsTokenValid reading AccessToken and then TokenExpiry) sees a token and an
\* expiry written by the same refresh.
C2_ReaderSeesConsistentPair ==
    [][\A p \in Procs :
         (cpc[p] = "valid_expiry" /\ cpc'[p] # "valid_expiry")
            => tokSeen[p] = expirySrc]_vars

\* C3: a refresh that gets a 200 response whose expires_in is no integer
\* string returns an error and changes neither AccessToken nor TokenExpiry.
C3_MalformedExpiresInLeavesState ==
    [][\A p \in Procs :
         /\ (cpc[p] = "gat" /\ cpc'[p] = "gat_expiry" /\ ~Atoi(expStr'[p]).ok)
               => (AccessToken' = AccessToken /\ TokenExpiry' = TokenExpiry)
         /\ (cpc[p] = "gat_expiry" /\ ~Atoi(expStr[p]).ok)
               => (/\ ret'[p] = "auth_error"
                   /\ AccessToken' = AccessToken
                   /\ TokenExpiry' = TokenExpiry)]_vars

(***************************************************************************)
(* Claims about pkg/webhooks                                               *)
(***************************************************************************)

\* The request is inside the HandlerFunc.
Served == wpc \in {"method", "verify", "decode", "dispatch", "ack", "done"}

\* The Scheme-B reference, written out: the content hash header and an
\* authorization value are there, and the value is the prefix followed by
\* base64(HMAC-SHA256(key, METHOD \n PATH \n DATE;HOST;CONTENT_HASH)).
RefSchemeB(key, r) ==
    /\ r.chash # ""
    /\ (r.auth # "" \/ r.xauth # "")
    /\ (IF r.auth # "" THEN r.auth ELSE r.xauth)
         = "HMAC-SHA256 SignedHeaders=x-ms-date;host;x-ms-content-sha256&Signature="
             \o "hmac(" \o key \o "," \o r.method \o "\n" \o r.path \o "\n" \o r.date
             \o ";" \o (IF r.xfh # "" THEN r.xfh ELSE r.host) \o ";" \o r.chash \o ")"

\* The body is one json.Unmarshal decodes into a WebhookEvent.
RefDecodable(r) == ~r.readErr /\ r.body \in {BodyCaptured, BodyOther}

\* C4 (as stated): with a secret configured the handler is never invoked for
\* a request whose signature check failed or that lacks X-Ms-Content-Sha256,
\* X-Ms-Date, or both Authorization and X-Vipps-Authorization.
C4_NoDispatchWithoutDateOrSignature ==
    (SecretKey # "" /\ invoked > 0)
       => /\ sigResult = "ok"
          /\ req.chash # ""
          /\ req.date # ""
          /\ (req.auth # "" \/ req.xauth # "")

\* C4 (amended): with a secret configured the handler is never invoked for a
\* request whose signature check failed or that lacks X-Ms-Content-Sha256 or
\* both Authorization and X-Vipps-Authorization.
C4_NoDispatchWithoutSignature ==
    (SecretKey # "" /\ Served /\ (~RefSchemeB(SecretKey, req) \/ sigResult \notin {"none", "ok"}))
       => (invoked = 0 /\ wpc \notin {"dispatch", "ack"} /\ status # StatusOK)

C4_Witness ==
    /\ SecretKey # ""
    /\ wpc = "done"
    /\ req.method = "POST"
    /\ sigResult = "signature_validation_failed"
    /\ invoked = 0

\* C5: with a secret configured, a POST whose body does not hash to the
\* declared X-Ms-Content-Sha256 fails verification, is answered 400 and never
\* reaches the handler.
C5_HashMismatchRejected ==
    (SecretKey # "" /\ Served /\ req.method = "POST" /\ ~req.readErr
       /\ req.chash # "sha256(" \o req.body \o ")")
       => /\ sigResult # "ok"
          /\ invoked = 0
          /\ (wpc = "done" => status = StatusBadRequest)

Differs(a, b) == IF a # b THEN 1 ELSE 0
DiffCount ==
    Differs(req.method, signed.method) + Differs(req.path, signed.path)
      + Differs(req.date, signed.date)
      + Differs(IF req.xfh # "" THEN req.xfh ELSE req.host, signed.host)
      + Differs(req.chash, signed.chash)

\* C7: for a fixed secret, a request that carries the authorization value
\* signed for the original and differs from the original in exactly one of
\* method, path, date, host and content hash is rejected.
C7_SingleChangeRejected ==
    (/\ sigResult # "none"
     /\ signed.auth # ""
     /\ signed.key = SecretKey
     /\ (IF req.auth # "" THEN req.auth ELSE req.xauth) = signed.auth
     /\ DiffCount = 1)
       => /\ sigResult # "ok"
          /\ ~RefSchemeB(SecretKey, req)

C7_Witness ==
    /\ sigResult = "signature_validation_failed"
    /\ signed.auth # ""
    /\ signed.key = SecretKey
    /\ req.auth = signed.auth
    /\ DiffCount = 1
    /\ req.date # signed.date

AllStages == <<"received", "signature-checked", "body-decoded", "dispatched", "acknowledged">>
StagesWithoutCheck == <<"received", "body-decoded", "dispatched", "acknowledged">>

\* stages is the first n stages of full, followed by "failed" or not.
InOrder(full) ==
    \E n \in 1..Len(full) :
        \/ stages = SubSeq(full, 1, n)
        \/ stages = Append(SubSeq(full, 1, n), "failed")

Has(stage) == \E i \in 1..Len(stages) : stages[i] = stage

\* What C10 says of every request besides the order of its stages: a failure
\* ends it, the handler runs at most once and only after a successful decode,
\* and exactly one status is written.
C10_Rest ==
    /\ (Has("failed") => wpc = "done")
    /\ invoked <= 1
    /\ (invoked = 1 => (Has("body-decoded") /\ RefDecodable(req)))
    /\ (invoked = 1 <=> Has("dispatched"))
    /\ writes = (IF wpc = "done" THEN 1 ELSE 0)

C11_NonPostIs405 ==
    (Served /\ wpc # "method" /\ req.method # "POST")
       => /\ wpc = "done"
          /\ status = 405
          /\ writes = 1
          /\ stages = <<"received", "failed">>
          /\ validations = 0
          /\ sigResult = "none"
          /\ rBody = [data |-> req.body, fails |-> req.readErr]
          /\ event = [name |-> "", reference |-> ""]
          /\ invoked = 0

C11_Witness ==
    /\ wpc = "done"
    /\ SecretKey # ""
    /\ req.method = "GET"
    /\ status = 405

\* C12: when ValidateSignature fails on a POST with a secret configured, the
\* endpoint answers 400, decodes nothing, does not invoke the handler and
\* validates once only.
C12_SignatureFailureIs400 ==
    (Served /\ SecretKey # "" /\ sigResult \notin {"none", "ok"})
       => /\ req.method = "POST"
          /\ wpc = "done"
          /\ status = 400
          /\ writes = 1
          /\ ~Has("body-decoded")
          /\ event = [name |-> "", reference |-> ""]
          /\ invoked = 0
          /\ validations = 1

C12_Witness ==
    /\ wpc = "done"
    /\ SecretKey # ""
    /\ sigResult = "missing_authorization"
    /\ status = 400
    /\ validations = 1

\* C13: when the body of a POST that passed the verification does not decode
\* into a WebhookEvent, the endpoint answers 400 and the handler is never invoked.
C13_UndecodableIs400 ==
    (/\ wpc \in {"dispatch", "ack", "done", "panicked"}
     /\ req.method = "POST"
     /\ (SecretKey = "" \/ sigResult = "ok")
     /\ ~RefDecodable(req))
       => /\ wpc = "done"
          /\ status = 400
          /\ invoked = 0
          /\ event = [name |-> "", reference |-> ""]

C13_Witness ==
    /\ wpc = "done"
    /\ SecretKey # ""
    /\ sigResult = "ok"
    /\ req.body = BodyMalformed
    /\ status = 400
    /\ invoked = 0

\* C14: when the dispatch fails, because the handler that was invoked returned
\* an error or because Router.Process found neither a handler nor a fallback,
\* the endpoint answers 500, never 200 or 400.
C14_DispatchFailureIs500 ==
    (/\ wpc \in {"ack", "done", "panicked"}
     /\ invoked = 1
     /\ \/ handlerResult = "error"
        \/ endpoint = "router" /\ routed.ret \notin {"none", "nil"}
        \/ endpoint = "router" /\ handlers[event.name] = "absent" /\ fallback = "nil")
       => /\ wpc = "done"
          /\ status = 500
          /\ writes = 1

C14_Witness ==
    /\ wpc = "done"
    /\ endpoint = "router"
    /\ invoked = 1
    /\ handlers[event.name] = "absent"
    /\ fallback = "nil"
    /\ status = 500

\* C15: verification is not destructive: once ValidateSignature has read the
\* body, the next read of r.Body (the one of ParseEvent) yields the bytes
\* that were verified, and these are the bytes that get decoded.
C15_BodyRereadable ==
    /\ (wpc = "validated" /\ sigResult # "read_error")
          => (rBody.data = req.body /\ ~rBody.fails)
    /\ (wpc = "decode" /\ SecretKey # "")
          => (sigResult = "ok" /\ rBody.data = req.body /\ ~rBody.fails)
    /\ (Has("body-decoded") /\ SecretKey # "")
          => \/ req.body = BodyCaptured /\ event = [name |-> "CAPTURED", reference |-> "order-1"]
             \/ req.body = BodyOther /\ event = [name |-> "CAPTURED", reference |-> "order-2"]

C15_Witness ==
    /\ wpc = "decode"
    /\ SecretKey # ""
    /\ sigResult = "ok"
    /\ rBody.data = BodyOther

\* C16: every call of Router.Process ends in exactly one of: the handler
\* registered for the event's name was invoked, the fallback was invoked, a
\* no-handler error was returned.
C16_ExactlyOneOutcome ==
    routed.name # "" =>
        LET matched == handlers[routed.name] # "absent"
                         /\ routed.called = <<handlers[routed.name]>>
            viaFallback == handlers[routed.name] = "absent" /\ fallback # "nil"
                             /\ routed.called = <<fallback>>
            noHandler == routed.called = <<>>
                           /\ routed.err = "no handler for event type: " \o routed.name
        IN /\ (matched \/ viaFallback \/ noHandler)
           /\ ~(matched /\ viaFallback)
           /\ ~(matched /\ noHandler)
           /\ ~(viaFallback /\ noHandler)

\* C17: when a handler is registered for the event's name, Router.Process
\* invokes it exactly once and nothing else, the fallback neither, and returns
\* what it returned, nil or its error, unchanged.
C17_MatchedHandlerOnce ==
    (routed.name # "" /\ handlers[routed.name] \in {"h1", "h2"})
       => /\ routed.called = <<handlers[routed.name]>>
          /\ routed.ret \in {"nil", "error of " \o handlers[routed.name]}
          /\ routed.err = routed.ret

C17_Witness ==
    /\ routed.name = "CAPTURED"
    /\ handlers["CAPTURED"] = "h1"
    /\ fallback = "h2"
    /\ routed.called = <<"h1">>
    /\ routed.err = "error of h1"

\* C18: when no handler is registered for the event's name, Router.Process
\* invokes the fallback exactly once and returns its result if there is one,
\* and otherwise invokes nothing and fails with "no handler for event type: <name>".
C18_FallbackOrNoHandler ==
    (routed.name # "" /\ handlers[routed.name] = "absent")
       => IF fallback # "nil"
            THEN /\ routed.called = <<fallback>>
                 /\ routed.ret \in {"nil", "error of " \o fallback}
                 /\ routed.err = routed.ret
            ELSE /\ routed.called = <<>>
                 /\ routed.err = "no handler for event type: " \o routed.name

C18_Witness ==
    /\ routed.name = "UNKNOWN"
    /\ handlers["UNKNOWN"] = "absent"
    /\ fallback = "h1"
    /\ routed.called = <<"h1">>
    /\ routed.err = "nil"

\* The value most recently registered for name n through Handle or HandleFunc
\* in a sequence of registration calls, and the one most recently given to
\* HandleDefault.
RECURSIVE LastFor(_, _)
LastFor(log, n) ==
    IF log = <<>> THEN "absent"
    ELSE LET c == log[Len(log)] IN
           IF c.op \in {"Handle", "HandleFunc"} /\ c.name = n THEN c.h
           ELSE LastFor(SubSeq(log, 1, Len(log) - 1), n)

RECURSIVE LastDefault(_)
LastDefault(log) ==
    IF log = <<>> THEN "nil"
    ELSE LET c == log[Len(log)] IN
           IF c.op = "HandleDefault" THEN c.h
           ELSE LastDefault(SubSeq(log, 1, Len(log) - 1))

\* C19: registration is last-write-wins: after any sequence of Handle,
\* HandleFunc and HandleDefault calls each name holds the handler most
\* recently registered for it, if any, and the fallback is the one most
\* recently given to HandleDefault; a registration for one name changes
\* neither another name's handler nor the fallback.
C19_LastWriteWins ==
    /\ \A n \in DOMAIN handlers : handlers[n] = LastFor(regLog, n)
    /\ fallback = LastDefault(regLog)

C19_Witness ==
    /\ Len(regLog) = 2
    /\ regLog[1] = [op |-> "Handle", name |-> "CAPTURED", h |-> "h1"]
    /\ regLog[2] = [op |-> "HandleFunc", name |-> "CAPTURED", h |-> "h2"]
    /\ handlers["CAPTURED"] = "h2"
    /\ handlers["AUTHORIZED"] = "absent"

\* C20: a refresh that got a 200 response and returned success leaves
\* IsTokenValid true at that moment, the stored token equal to the response's
\* access_token and the stored expiry equal to the time of the refresh plus
\* expires_in seconds.
C20_RefreshThenValid ==
    [][\A p \in Procs :
         (cpc[p] = "gat_expiry" /\ cpc'[p] # "gat_expiry" /\ ret'[p] # "auth_error")
            => /\ AccessToken' # ""
               /\ now' < TokenExpiry'
               /\ AccessToken' = tokResp[p]
               /\ TokenExpiry' = now + Atoi(expStr[p]).val]_vars

(***************************************************************************)
(* Further claims about pkg/client                                         *)
(***************************************************************************)

\* C21: IsTokenValid returns true iff the stored token is non-empty and the
\* current time is strictly before the stored expiry; at the time of the
\* expiry it returns false.
C21_IsTokenValidIff ==
    [][\A p \in Procs :
         (cop[p] = "IsTokenValid" /\ cpc[p] # "idle" /\ cpc'[p] = "idle")
            => ret'[p] = IF AccessToken # "" /\ now < TokenExpiry THEN "true" ELSE "false"]_vars

C21_Witness ==
    /\ cop[1] = "IsTokenValid"
    /\ cpc[1] = "idle"
    /\ ret[1] = "false"
    /\ AccessToken # ""
    /\ now = TokenExpiry

\* C22: EnsureValidToken refreshes on demand only: with IsTokenValid true it
\* calls the token endpoint not at all and changes nothing; with IsTokenValid
\* false it calls the token endpoint exactly once and returns what that call
\* yields.
C22_RefreshOnDemandOnly ==
    [][\A p \in Procs :
         cop[p] = "EnsureValidToken" =>
           LET valid == AccessToken # "" /\ now < TokenExpiry
               leavesCheck ==
                 \/ cpc[p] = "valid_token" /\ cpc'[p] \notin {"valid_token", "valid_expiry"}
                 \/ cpc[p] = "valid_expiry" /\ cpc'[p] # "valid_expiry"
           IN /\ (leavesCheck /\ valid)
                   => (/\ cpc'[p] = "idle"
                       /\ ret'[p] = "nil"
                       /\ tokenCalls'[p] = <<>>
                       /\ AccessToken' = AccessToken
                       /\ TokenExpiry' = TokenExpiry)
              /\ (leavesCheck /\ ~valid)
                   => (cpc'[p] = "gat" /\ tokenCalls'[p] = <<>>)
              /\ (cpc[p] = "gat" /\ cpc'[p] # "gat")
                   => (/\ Len(tokenCalls'[p]) = 1
                       /\ (cpc'[p] = "idle" => ret'[p] = "auth_error"))
              /\ (cpc[p] = "gat_expiry" /\ cpc'[p] # "gat_expiry")
                   => (/\ cpc'[p] = "idle"
                       /\ Len(tokenCalls'[p]) = 1
                       /\ ret'[p] = IF Atoi(expStr[p]).ok THEN "nil" ELSE "auth_error")]_vars

C22_Witness ==
    /\ cop[1] = "EnsureValidToken"
    /\ cpc[1] = "idle"
    /\ ret[1] = "nil"
    /\ tokenCalls[1] = <<>>
    /\ AccessToken # ""
    /\ now < TokenExpiry

\* C23: GetAccessToken returns an error and leaves AccessToken and
\* TokenExpiry as they are whenever the call of the token endpoint fails at
\* transport level or the status of the response is not 200.
C23_FailedRefreshLeavesState ==
    [][\A p \in Procs :
         (/\ Len(tokenCalls'[p]) = Len(tokenCalls[p]) + 1
          /\ tokenCalls'[p][Len(tokenCalls'[p])]
                \in {"transport_error", "status 401", "undecodable 401"})
            => /\ cpc'[p] = "idle"
               /\ ret'[p] = "auth_error"
               /\ AccessToken' = AccessToken
               /\ TokenExpiry' = TokenExpiry]_vars

C23_Witness ==
    /\ cop[1] = "GetAccessToken"
    /\ cpc[1] = "idle"
    /\ tokenCalls[1] = <<"status 401">>
    /\ ret[1] = "auth_error"
    /\ AccessToken = "tokA"

\* C24: DoRequest calls EnsureValidToken before anything else; when that
\* fails DoRequest returns its error as it is, with a nil body and status 0,
\* and sends nothing to the domain endpoint.
C24_EnsureFirstAndPropagate ==
    [][\A p \in Procs :
         /\ (cop'[p] = "DoRequest" /\ cpc[p] = "idle" /\ cpc'[p] # "idle")
               => cpc'[p] = "valid_token"
         /\ (cop'[p] = "DoRequest"
               /\ cpc'[p] \in {"valid_token", "valid_expiry", "gat", "gat_expiry"})
               => (domainCalls'[p] = 0 /\ lastSent' = lastSent)
         /\ (cop[p] = "DoRequest" /\ cpc[p] \in {"gat", "gat_expiry"} /\ cpc'[p] = "idle")
               => (/\ ret'[p] = "auth_error"
                   /\ retVal'[p] = [body |-> "nil", status |-> 0]
                   /\ domainCalls'[p] = 0
                   /\ lastSent' = lastSent)]_vars

C24_Witness ==
    /\ cop[1] = "DoRequest"
    /\ cpc[1] = "idle"
    /\ ret[1] = "auth_error"
    /\ tokenCalls[1] = <<"transport_error">>
    /\ domainCalls[1] = 0
    /\ retVal[1] = [body |-> "nil", status |-> 0]

\* C25: the request sent carries an Idempotency-Key header iff the
\* idempotencyKey argument is non-empty, and its value is the argument.
C25_IdempotencyKeyVerbatim ==
    lastSent.sent
       => /\ (lastSent.headers.IdempotencyKey # <<>> <=> lastSent.args.idempotencyKey # "")
          /\ (lastSent.args.idempotencyKey # ""
                => lastSent.headers.IdempotencyKey = <<lastSent.args.idempotencyKey>>)

C25_Witness ==
    /\ lastSent.sent
    /\ lastSent.args.idempotencyKey = "k1"
    /\ lastSent.headers.IdempotencyKey = <<"k1">>

\* C26 (as stated): a DoRequest that follows one with the same method,
\* endpoint, body and key sends its request as well, and with the same headers.
C26_RepeatedRequestSameHeaders ==
    [][\A p \in Procs :
         (/\ cpc[p] = "send" /\ cpc'[p] = "idle" /\ ret'[p] # "build_error"
          /\ lastSent.sent /\ lastSent.args = args[p])
            => /\ domainCalls'[p] = domainCalls[p] + 1
               /\ lastSent'.sent
               /\ lastSent'.args = args[p]
               /\ lastSent'.headers = lastSent.headers]_vars

\* C26 (amended): it sends its request as well, with the same Idempotency-Key
\* header and with the token stored at that time behind "Bearer ": the headers
\* are the same when the stored token and the system information are the ones
\* that were sent before.
C26_RepeatedRequestSameKeyHeader ==
    [][\A p \in Procs :
         (/\ cpc[p] = "send" /\ cpc'[p] = "idle" /\ ret'[p] # "build_error"
          /\ lastSent.sent /\ lastSent.args = args[p])
            => /\ domainCalls'[p] = domainCalls[p] + 1
               /\ lastSent'.sent
               /\ lastSent'.args = args[p]
               /\ lastSent'.headers.IdempotencyKey = lastSent.headers.IdempotencyKey
               /\ lastSent'.headers.Authorization = "Bearer " \o AccessToken
               /\ (/\ AccessToken = lastSent.token
                   /\ systemInfo.name = lastSent.headers.SystemName
                   /\ systemInfo.version = lastSent.headers.SystemVersion
                   /\ lastSent.headers.SystemPluginName
                        = (IF systemInfo.pluginName # "" THEN <<systemInfo.pluginName>> ELSE <<>>)
                   /\ lastSent.headers.SystemPluginVersion
                        = (IF systemInfo.pluginVersion # "" THEN <<systemInfo.pluginVersion>>
                                                           ELSE <<>>))
                     => lastSent'.headers = lastSent.headers]_vars

C26_Witness ==
    /\ lastSent.sent
    /\ lastSent.repeat
    /\ lastSent.args.idempotencyKey = "k1"
    /\ lastSent.token = "tokB"

\* The error DoRequest builds for an error response, written out for the
\* bodies and statuses of the model.
RefApiError(code, body) ==
    IF body = "{\"title\":\"T\",\"detail\":\"D\",\"status\":400,\"code\":\"C\"}"
      THEN "API error: T - D (Code: C, Status: 400)"
    ELSE IF body = "{}"
      THEN "API error:  -  (Code: , Status: 0)"
    ELSE "API error: status code "
           \o (CASE code = 400 -> "400" [] code = 401 -> "401" [] OTHER -> "?")
           \o ", body: " \o body

\* C27 (as stated): for every response with a status of 400 or more DoRequest
\* returns an error, the raw body and the status; the error is built from the
\* problem payload when the body decodes as one, and from status and body
\* otherwise.
C27_ErrorResponseReturned ==
    \A p \in Procs :
        (cop[p] = "DoRequest" /\ cpc[p] = "idle" /\ domResp[p].got
           /\ ~domResp[p].transportErr /\ domResp[p].status >= 400)
          => /\ ret[p] = RefApiError(domResp[p].status, domResp[p].body)
             /\ retVal[p] = [body |-> domResp[p].body, status |-> domResp[p].status]

\* C27 (amended): so it is when the body of the response could be read; when
\* it could not, DoRequest returns the read error with the status and a nil body.
C27_ErrorResponseReturnedIfRead ==
    \A p \in Procs :
        (cop[p] = "DoRequest" /\ cpc[p] = "idle" /\ domResp[p].got
           /\ ~domResp[p].transportErr /\ domResp[p].status >= 400)
          => IF domResp[p].readErr
               THEN /\ ret[p] = "failed to read response body"
                    /\ retVal[p] = [body |-> "nil", status |-> domResp[p].status]
               ELSE /\ ret[p] = RefApiError(domResp[p].status, domResp[p].body)
                    /\ retVal[p] = [body |-> domResp[p].body, status |-> domResp[p].status]

C27_Witness ==
    /\ cop[1] = "DoRequest"
    /\ cpc[1] = "idle"
    /\ domResp[1].status = 401
    /\ domResp[1].body = ProblemBody
    /\ ret[1] = "API error: T - D (Code: C, Status: 400)"
    /\ retVal[1] = [body |-> ProblemBody, status |-> 401]

\* C28: for every response with a status from 200 to 399 whose body was read
\* DoRequest returns the raw body and the status with a nil error.
C28_SuccessReturned ==
    \A p \in Procs :
        (cop[p] = "DoRequest" /\ cpc[p] = "idle" /\ domResp[p].got
           /\ ~domResp[p].transportErr /\ ~domResp[p].readErr
           /\ domResp[p].status >= 200 /\ domResp[p].status <= 399)
          => /\ ret[p] = "nil"
             /\ retVal[p] = [body |-> domResp[p].body, status |-> domResp[p].status]

C28_Witness ==
    /\ cop[1] = "DoRequest"
    /\ cpc[1] = "idle"
    /\ domResp[1].status = 399
    /\ domResp[1].body = NotJson
    /\ ret[1] = "nil"
    /\ retVal[1] = [body |-> NotJson, status |-> 399]

\* C29: concurrent webhook deliveries do not interfere: no step of a delivery
\* changes the secret of the handler, the map of the router or its fallback,
\* and, the registrations being over when the first request arrives, every
\* delivery ends, whatever the interleaving, with the outcome it has when it
\* is served alone.
C29_DeliveriesDoNotInterfere ==
    [][/\ (\E d \in Deliveries : deliveries'[d] # deliveries[d])
            => (SecretKey' = SecretKey /\ handlers' = handlers /\ fallback' = fallback)
       /\ \A d \in Deliveries :
            deliveries'[d].pc \in {"done", "panicked"}
               => LET D == deliveries'[d]
                      alone == HandleHTTPAlone(SecretKey', handlers', fallback', D.req,
                                               IF D.run = <<>> THEN NoRun ELSE D.run)
                  IN /\ D.status = alone.status
                     /\ D.called = alone.called
                     /\ D.err = alone.err
                     /\ D.writes = IF D.pc = "done" THEN 1 ELSE 0]_vars

C29_Witness ==
    /\ deliveries[1].pc = "done"
    /\ deliveries[1].overlap
    /\ deliveries[1].status = 200
    /\ deliveries[1].called = <<"h1">>
    /\ deliveries[2].pc = "done"
    /\ deliveries[2].overlap
    /\ deliveries[2].status = 500
    /\ deliveries[2].called = <<"h2">>

\* C30: one DoRequest calls the token endpoint at most once and the domain
\* endpoint at most once: a transport failure is returned as an error with a
\* nil body and status 0, and after a response, whatever its status, nothing
\* is refreshed or sent again.
C30_NoRetry ==
    [][\A p \in Procs :
         cop'[p] = "DoRequest" =>
           /\ Len(tokenCalls'[p]) <= 1
           /\ domainCalls'[p] <= 1
           /\ (domResp'[p].got => (cpc'[p] = "idle" /\ domainCalls'[p] = 1))
           /\ (domResp'[p].got /\ domResp'[p].transportErr)
                 => (/\ ret'[p] = "failed to send request"
                     /\ retVal'[p] = [body |-> "nil", status |-> 0])
           /\ (domainCalls'[p] > domainCalls[p])
                 => (/\ tokenCalls'[p] = tokenCalls[p]
                     /\ AccessToken' = AccessToken
                     /\ TokenExpiry' = TokenExpiry)]_vars

C30_Witness ==
    /\ cop[1] = "DoRequest"
    /\ cpc[1] = "idle"
    /\ domResp[1].got
    /\ domResp[1].status = 401
    /\ tokenCalls[1] = <<"status 200">>
    /\ domainCalls[1] = 1

\* C31: AccessToken and TokenExpiry are changed only by a successful refresh:
\* every step that changes one of them is a step of a GetAccessToken that
\* returns nil, so IsTokenValid, SetSystemInfo, SetTimeout and the sending and
\* response handling of DoRequest leave both as they are.
C31_TokenChangedOnlyBySuccessfulRefresh ==
    [][(AccessToken' # AccessToken \/ TokenExpiry' # TokenExpiry)
          => \E p \in Procs :
               \/ cpc[p] = "gat" /\ cpc'[p] = "gat_expiry" /\ Atoi(expStr'[p]).ok
               \/ cpc[p] = "gat_expiry" /\ cpc'[p] = "idle" /\ ret'[p] = "nil"]_vars

\* C32: after EnsureValidToken returned an error IsTokenValid is still false,
\* so the next DoRequest refreshes again before it sends anything.
C32_StillInvalidAfterFailedEnsure ==
    [][\A p \in Procs :
         (cop[p] = "EnsureValidToken" /\ cpc[p] # "idle" /\ cpc'[p] = "idle" /\ ret'[p] # "nil")
            => ~(AccessToken' # "" /\ now' < TokenExpiry')]_vars

\* C33: ValidateSignature takes the authorization value from Authorization
\* and from X-Vipps-Authorization only when Authorization is empty or
\* absent; with both absent it fails, and a non-empty Authorization that is
\* wrong is never rescued by a correct X-Vipps-Authorization.
C33_AuthorizationTakesPrecedence ==
    (validations > 0 /\ ~req.readErr /\ req.chash # "") =>
       LET used     == IF req.auth # "" THEN req.auth ELSE req.xauth
           expected == AuthPrefix \o HmacB64(SecretKey,
                          SignedString(req.method, req.path, req.date, ResolveHost(req), req.chash))
       IN /\ (req.auth = "" /\ req.xauth = "") <=> sigResult = "missing_authorization"
          /\ used # "" => (sigResult = "ok" <=> used = expected)
          /\ (req.auth # "" /\ req.auth # expected) => sigResult = "signature_validation_failed"

\* A wrong Authorization next to the X-Vipps-Authorization the holder of the
\* secret computed for this very request: the validation fails.
C33_Witness ==
    /\ validations > 0
    /\ signed.key = SecretKey
    /\ req.chash # ""
    /\ req.auth = Garbage
    /\ req.xauth = signed.auth
    /\ req.xauth = ExpectedAuthHeader(SecretKey, req)
    /\ sigResult = "signature_validation_failed"

\* C34: with an empty secret ParseEvent verifies no signature at all: every
\* POST whose body decodes as a WebhookEvent is dispatched, whatever its
\* headers.
C34_EmptySecretDispatchesUnverified ==
    (SecretKey = "" /\ wpc \in {"method", "verify", "decode", "dispatch", "ack", "done", "panicked"}) =>
       /\ validations = 0
       /\ sigResult = "none"
       /\ (wpc \in {"ack", "done", "panicked"} /\ req.method = "POST" /\ ~req.readErr
             /\ JsonUnmarshal(req.body).ok)
            => (invoked = 1 /\ event = JsonUnmarshal(req.body).event)

\* An event that carries no content hash, no signature and a wrong
\* Authorization is handed to the handler of an endpoint without secret.
C34_Witness ==
    /\ SecretKey = ""
    /\ wpc = "done"
    /\ req.auth = Garbage
    /\ req.chash = ""
    /\ req.vsig = ""
    /\ invoked = 1
    /\ status = StatusOK

\* ---- the string to be signed, over header values with separators ---------

\* Values of X-Ms-Date and of the Host entry that contain the ';' by which
\* lines 72-77 join the three header values.
SeparatorDates == {"d1", "d1;x"}
SeparatorHosts == {"host", "x;host"}

\* Signed requests whose X-Ms-Date and host are changed on the way, given to
\* Handler.ValidateSignature.
CanonicalNext ==
    \/ \E k \in Secrets, date \in SeparatorDates, host \in SeparatorHosts, b \in Bodies :
          Sign(k, "B", date, "", host, b)
    \/ \E v \in SeparatorDates : Tamper("date", v)
    \/ \E v \in SeparatorHosts : Tamper("host", v)
    \/ ValidateCall
    \/ Finish

SpecCanonical == Init /\ [][CanonicalNext]_vars

\* C35: the string to be signed is injective in (method, path, X-Ms-Date,
\* host, X-Ms-Content-Sha256): an authorization value computed with the
\* secret for one tuple validates no request with another tuple, also when
\* header values contain ';'.
C35_CanonicalStringInjective ==
    (wpc = "validated" /\ sigResult = "ok" /\ signed.key = SecretKey
        /\ AuthHeaderOf(req) = signed.auth)
      => <<req.method, req.path, req.date, ResolveHost(req), req.chash>>
           = <<signed.method, signed.path, signed.date, signed.host, signed.chash>>

\* ---- the Client used through Payment and Webhook -------------------------

\* The token endpoint answers with a token or not at all; the domain
\* endpoint answers with a body that decodes into a struct, into a slice or
\* not at all, with a problem, or not at all.
PaymentTokenResponses ==
    { tr \in TokenResponses :
         \/ tr.transportErr
         \/ tr.status = 200 /\ tr.decodable /\ tr.access_token = "tokA" /\ tr.expires_in = <<"2">> }
PaymentDomainResponses ==
    { [got |-> TRUE, transportErr |-> TRUE, status |-> 0, body |-> "", readErr |-> FALSE],
      [got |-> TRUE, transportErr |-> FALSE, status |-> 400, body |-> ProblemBody, readErr |-> FALSE] }
    \cup { [got |-> TRUE, transportErr |-> FALSE, status |-> 200, body |-> b, readErr |-> FALSE] :
              b \in {EmptyObject, EmptyArray, NotJson} }

\* A Client of the production or of the test environment.
PaymentInit ==
    /\ \E testMode \in BOOLEAN : NewClient(testMode)
    /\ WebhookInit /\ RouterInit /\ DeliveriesInit
    /\ SecretKey = "" /\ endpoint = "func"

PaymentNext == ApiStepOn({1}, PaymentTokenResponses, PaymentDomainResponses)

SpecPayment == PaymentInit /\ [][PaymentNext]_vars

C36_KeyedOps == {"Payment.Create", "Payment.Capture", "Payment.Refund", "Payment.ForceApprove"}

\* The key the operation in progress gave to DoRequest is the one of its
\* invocation, and the request sent last carries the key of an invocation of
\* its operation as Idempotency-Key, or no such header for an empty key.
C36_KeysReachDoRequest ==
    /\ \A p \in Procs :
         (papi[p] # "none" /\ pret[p] = "none")
            => /\ cop[p] = "DoRequest"
               /\ args[p].idempotencyKey = invocations[Len(invocations)].key
               /\ args[p].endpoint = ApiOp(papi[p]).endpoint
    /\ lastSent.sent
         => \E i \in DOMAIN invocations :
              LET v == invocations[i] IN
                /\ v.called
                /\ ApiOp(v.op).endpoint = lastSent.args.endpoint
                /\ ApiOp(v.op).method = lastSent.args.method
                /\ v.key = lastSent.args.idempotencyKey
                /\ lastSent.headers.IdempotencyKey
                      = IF v.op \in C36_KeyedOps THEN <<v.key>> ELSE <<>>

\* C36 as stated: every call of Payment.Create, Capture, Refund and
\* ForceApprove passes a newly generated idempotency key to DoRequest, so
\* that no two invocations share a key, while Payment.Get, GetEvents, Cancel
\* and the Webhook operations pass the empty key and send no Idempotency-Key.
C36_EveryCallPassesFreshKey ==
    /\ \A i \in DOMAIN invocations :
         LET v == invocations[i] IN
           /\ v.called
           /\ v.op \in C36_KeyedOps
                => (v.key # "" /\ \A j \in DOMAIN invocations : j # i => invocations[j].key # v.key)
           /\ v.op \notin C36_KeyedOps => v.key = ""
    /\ C36_KeysReachDoRequest

\* C36, amended: the same for every call that reaches DoRequest, which are
\* all calls but those of ForceApprove on a Client not in test mode.
C36_FreshKeyPerCall ==
    /\ \A i \in DOMAIN invocations :
         LET v == invocations[i] IN
           /\ v.called <=> ~(v.op = "Payment.ForceApprove" /\ ~TestMode)
           /\ (v.called /\ v.op \in C36_KeyedOps)
                => (v.key # "" /\ \A j \in DOMAIN invocations : j # i => invocations[j].key # v.key)
           /\ v.op \notin C36_KeyedOps => v.key = ""
    /\ C36_KeysReachDoRequest

\* Two captures, the second one sent with its own key.
C36_Witness ==
    /\ Len(invocations) = 2
    /\ invocations[1].op = "Payment.Capture"
    /\ invocations[2].op = "Payment.Capture"
    /\ invocations[1].key # invocations[2].key
    /\ lastSent.sent
    /\ lastSent.headers.IdempotencyKey = <<invocations[2].key>>
    /\ pret[1] = "nil"

\* C37: Payment.ForceApprove on a Client not in test mode returns an error
\* without any network call: no token refresh, no domain request, and the
\* token state is unchanged.
C37_ForceApproveRefusedOffline ==
    [][\A p \in Procs :
         (/\ ~TestMode
          /\ Len(invocations') = Len(invocations) + 1
          /\ papi'[p] = "Payment.ForceApprove"
          /\ invocations'[Len(invocations')].op = "Payment.ForceApprove")
            => /\ pret'[p] = "force approve is only available in test environment"
               /\ cpc'[p] = "idle"
               /\ UNCHANGED <<AccessToken, TokenExpiry, refreshes, tokenCalls, domainCalls,
                              lastSent, cpc, cop, args, uuids>>]_vars

\* A payment was read, then ForceApprove was refused: the request sent last
\* is still the one of the read.
C37_Witness ==
    /\ ~TestMode
    /\ Len(invocations) = 2
    /\ invocations[1].op = "Payment.Get"
    /\ papi[1] = "Payment.ForceApprove"
    /\ pret[1] = "force approve is only available in test environment"
    /\ AccessToken = "tokA"
    /\ lastSent.sent
    /\ lastSent.args.endpoint = "/epayment/v1/payments/r1"
====
